---- MODULE Spec2Model ----
(***************************************************************************)
(* nsql-cli: the OAuth 2.0 browser login flow of lib/oauth2.js.            *)
(*                                                                         *)
(* One login attempt: login() generates a state token, starts the one-shot *)
(* callback server (startCallbackServer), opens the browser, awaits the    *)
(* server's promise, checks the returned state and exchanges the code.     *)
(* The callback server is an event-driven acceptor: its request handler,   *)
(* its 'error' handler and its timer run between the steps of login().     *)
(*                                                                         *)
(* The query path of lib/config.js and executeQuery: the profile store and *)
(* the machine key, resolveCredentials, isTokenExpired, and the refresh of *)
(* an OAuth 2.0 access token before the SuiteQL call (executeOAuth2Query). *)
(***************************************************************************)
EXTENDS Integers, Sequences, FiniteSets, TLC

\* ------------------------------------------------------------------ bounds
\* Requests that reach the callback server during one attempt.
MaxRequests == 3
\* Granularity of the modelled clock, in milliseconds.
TickMs == 60000
\* Save operations (configure, login) that precede the query invocation.
MaxSaves == 2
\* Steps of the wall clock (Date.now()) during the modelled run.
MaxClockSteps == 2
\* Token expiry times tried for isTokenExpired, in steps of ExpiryStepMs.
MaxExpirySteps == 8
\* encrypt and decrypt calls tried in a row.
MaxCryptoCalls == 3
\* Characters of the longest query handed to replacePlaceholders.
MaxQueryLen == 3

\* --------------------------------------------------------- program constants
DEFAULT_CALLBACK_PORT == 9749
CALLBACK_PATH == "/callback"
CALLBACK_TIMEOUT_MS == 120000
\* 5 * 60 * 1000
TOKEN_EXPIRY_BUFFER_MS == 300000

\* ------------------------------------------------------------- value domains
\* url.searchParams.get(name) is null when the parameter is absent.
NoParam == "<null>"
NoPort == 0
Ports == {DEFAULT_CALLBACK_PORT, 8080}
\* crypto.randomBytes(16).toString('hex') values of the attempt's state token.
States == {"s1", "s2"}
Codes == {"c1", "c2"}
ProviderErrors == {"access_denied"}
Paths == {CALLBACK_PATH, "/other"}
\* err.message of a failed listen() or accept().
BindCauses == {"EADDRINUSE"}
AcceptCauses == {"EMFILE"}
\* HTTP status of the token endpoint's answer.
TokenStatuses == {200, 400}
\* What crypto.randomBytes(32) returns, call after call: the source does not
\* repeat a value.
RandomBytes == <<"r1", "r2">>
\* The address the callback server listens on.
ListenHost == "127.0.0.1"

\* A GET request as the handler sees it after new URL(req.url, ...): its
\* pathname and its code, state and error query parameters (null, '' or a value).
CallbackRequests ==
  [path : {CALLBACK_PATH},
   code : {NoParam, ""} \cup Codes,
   state : {NoParam} \cup States,
   error : {NoParam, ""} \cup ProviderErrors]

OtherRequests ==
  [path : Paths \ {CALLBACK_PATH},
   code : {NoParam, "c1"},
   state : {"s1"},
   error : {NoParam}]

Requests == CallbackRequests \cup OtherRequests

VARIABLES
  pc,              \* position of login(): idle, opening, waiting, exchanging, done
  port,            \* login's port argument
  state,           \* the state token login generated
  browser,         \* outcome of open(authUrl): unopened, opened, failed
  tokenRequest,    \* the code-exchange request sent to the token endpoint, if any
  result,          \* what login() returned or threw
  server,          \* the http.Server: none, listening, closed, failed
  boundPort,       \* the port the server's socket is bound to
  timeoutId,       \* the 2-minute timer: unset, armed, cleared, fired
  elapsedMs,       \* time since the server was started
  callbackPromise, \* the promise startCallbackServer returned
  conns,           \* accepted connections whose request has not been handled yet
  responses,       \* HTTP status codes written so far, in order
  authUrl,         \* the authorization URL login built: redirect_uri, state, code_challenge
  pkce,            \* the attempt's { codeVerifier, codeChallenge }
  draws,           \* number of crypto.randomBytes(32) values handed out so far
  attempts,        \* the PKCE pairs of the earlier login attempts, and what each sent
  steps,           \* what login has done so far, in order: listen, print, open, exchange
  store,           \* config.json: profile name -> profile record
  keyFile,         \* content of .encryption-key, if the file exists
  now,             \* Date.now()
  saves,           \* outcomes of the configure and save operations so far
  qpc,             \* position of executeQuery(): idle, refreshing, querying, done
  qargs,           \* executeQuery's profileName, dryRun and format arguments
  env,             \* the NSQL_* variables of the invocation's environment
  resolved,        \* what resolveCredentials returned to executeQuery
  refreshRequests, \* refresh requests sent to the token endpoint, in order
  refreshResponse, \* the token endpoint's answer to the refresh
  apiCalls,        \* calls of the remote query API, in order
  events,          \* order of the store writes and outgoing requests of the invocation
  report,          \* what executeQuery printed and how it ended
  expiryCheck,     \* the last isTokenExpired(profile) call: arguments and result
  cryptoCheck,     \* the last encrypt(text) and decrypt(text) calls: arguments and results
  tokenCheck,      \* a token endpoint response and what the token client made of it
  writers,         \* concurrent invocations that change the store: what each read and does
  replaceCheck     \* a replacePlaceholders(query, params) call: arguments and result

pkceVars == <<authUrl, pkce, draws, attempts>>
loginSide == <<pc, port, state, browser, tokenRequest, result, server, boundPort,
               timeoutId, elapsedMs, callbackPromise, conns, responses, pkceVars, steps>>

diskVars == <<store, keyFile, now, saves>>
invocationVars == <<qpc, qargs, env, resolved, refreshRequests, refreshResponse,
                    apiCalls, events, report>>
otherChecks == <<writers, replaceCheck>>
checkVars == <<expiryCheck, cryptoCheck, tokenCheck, otherChecks>>
queryVars == <<diskVars, invocationVars, checkVars>>

vars == <<loginSide, queryVars>>

loginVars == <<pc, port, state, browser, tokenRequest, result, pkceVars, steps>>
serverVars == <<server, boundPort, timeoutId, callbackPromise>>
netVars == <<conns, responses>>

\* ------------------------------------------------------------------ errors
NoError == [kind |-> "none", detail |-> "", port |-> NoPort]

\* Variant of DeniedError that leaves out the provider's error code.
DeniedErrorGeneric(error) == [kind |-> "authorization_denied", detail |-> "", port |-> NoPort]

\* new Error(`Authorization denied: ${error}`)
DeniedError(error) == [kind |-> "authorization_denied", detail |-> error, port |-> NoPort]

\* new Error('No authorization code received in callback')
NoCodeError == [kind |-> "no_code", detail |-> "", port |-> NoPort]

\* new Error('Authentication timed out. No callback received within 2 minutes.')
TimeoutError == [kind |-> "timed_out", detail |-> "", port |-> NoPort]

\* new Error(`Failed to start callback server on port ${port}: ${err.message}`)
StartFailedError(p, cause) == [kind |-> "start_failed", detail |-> cause, port |-> p]

\* new Error('State mismatch: possible CSRF attack. Please try again.')
StateMismatchError == [kind |-> "state_mismatch", detail |-> "", port |-> NoPort]

\* whatever import('open') or open(authUrl) rejected with
OpenError == [kind |-> "open_failed", detail |-> "", port |-> NoPort]

\* new Error(`Token exchange failed (${response.status}): ${detail}`)
ExchangeError(status) == [kind |-> "exchange_failed", detail |-> ToString(status), port |-> NoPort]

\* ----------------------------------------------------------------- promise
Pending == [status |-> "pending", code |-> NoParam, state |-> NoParam, error |-> NoError]
Resolved(code, st) == [status |-> "resolved", code |-> code, state |-> st, error |-> NoError]
Rejected(err) == [status |-> "rejected", code |-> NoParam, state |-> NoParam, error |-> err]

\* Variant of Settle in which a later call replaces the settled value.
SettleOverwrite(p, v) == v

\* resolve()/reject() of a JavaScript promise: only the first call settles it.
Settle(p, v) == IF p.status = "pending" THEN v ELSE p

\* JavaScript truthiness of a query parameter: null and '' are falsy.
Truthy(v) == v \notin {NoParam, ""}

\* Variant of IsCallbackPath without the pathname test.
IsCallbackPathAny(path) == TRUE

\* url.pathname !== CALLBACK_PATH
IsCallbackPath(path) == path = CALLBACK_PATH

\* server.close(): stops listening; a no-op on a server that is not listening.
Close(s) == IF s = "listening" THEN "closed" ELSE s

\* clearTimeout(timeoutId): cancels a pending timer, nothing else.
ClearTimeout(t) == IF t = "armed" THEN "cleared" ELSE t

\* ------------------------------------------------- the profile store
ProfileNames == {"default", "prod"}
Keys == {"k1", "k2"}
IVs == {"iv1"}
ClientSecrets == {"cs1"}
AccessTokens == {"at1"}
RefreshTokens == {"rt1"}
\* expires_in of a token response, in seconds
ExpiresIns == {300, 600}
\* The clock at the start of the run and the length of one step of it.
ClockStartMs == 600000
ClockStepMs == 300000

\* A field a profile does not have (undefined). For tokenExpiry it is 0: both
\* are falsy in `!profile.tokenExpiry`.
NoExpiry == 0

\* A secret value as it sits in a field: absent, a plain string, or the
\* `iv:ciphertext` string that encrypt() made of a text under a key.
NoSecret == [form |-> "absent", key |-> "", iv |-> "", text |-> ""]
Plain(text) == [form |-> "plain", key |-> "", iv |-> "", text |-> text]
Cipher(text, key, iv) == [form |-> "cipher", key |-> key, iv |-> iv, text |-> text]
\* What createDecipheriv yields for a ciphertext made under another key.
Garbled == [form |-> "garbled", key |-> "", iv |-> "", text |-> ""]

\* JavaScript truthiness of a secret field: undefined, null and '' are falsy.
TruthySecret(v) == v.form \notin {"absent"} /\ ~(v.form = "plain" /\ v.text = "")

\* .encryption-key does not exist.
NoKey == "<nokey>"

\* Variant of GetEncryptionKey that generates a key on every call.
GetEncryptionKeyFresh(file, fresh) == fresh

\* getEncryptionKey(): the content of the key file, or a fresh key that is
\* written to it. `fresh` is what crypto.randomBytes would give.
GetEncryptionKey(file, fresh) == IF file # NoKey THEN file ELSE fresh

\* Variant of Encrypt that encrypts whatever it is given.
EncryptAlways(v, key, iv) == Cipher(v.text, key, iv)

\* Variant of Encrypt that returns its argument.
EncryptNothing(v, key, iv) == v

\* encrypt(text): falsy text is passed through; else `iv:ciphertext`.
Encrypt(v, key, iv) == IF ~TruthySecret(v) THEN v ELSE Cipher(v.text, key, iv)

\* Variant of Decrypt that returns its argument.
DecryptPassThrough(v, key) == v

\* Plain texts that contain ':' without being an output of encrypt().
SeparatorTexts == {"a:b"}

\* createDecipheriv and decipher.final throw for an iv or a ciphertext that
\* encrypt() did not make.
DecryptError == [form |-> "error", key |-> "", iv |-> "", text |-> ""]

\* text.includes(':')
HasSeparator(v) == v.form = "cipher" \/ (v.form = "plain" /\ v.text \in SeparatorTexts)

\* decrypt(text): falsy text and text without ':' are passed through.
Decrypt(v, key) ==
  IF ~TruthySecret(v) \/ ~HasSeparator(v) THEN v
  ELSE IF v.form # "cipher" THEN DecryptError
  ELSE IF v.key = key THEN Plain(v.text)
  ELSE Garbled

\* config[profileName] is undefined.
NoProfile == [absent |-> TRUE]

\* The five fields of an OAuth 1.0a profile.
LegacyFields == {"consumerKey", "consumerSecret", "token", "tokenSecret", "realm"}

\* A profile written by `configure`: the five OAuth 1.0a fields, no authType.
OAuth1Profile(profileData) ==
  [authType |-> NoParam,
   consumerKey |-> profileData.consumerKey, consumerSecret |-> profileData.consumerSecret,
   token |-> profileData.token, tokenSecret |-> profileData.tokenSecret,
   realm |-> profileData.realm,
   accountId |-> NoParam, clientId |-> NoParam, clientSecret |-> NoSecret,
   accessToken |-> NoParam, refreshToken |-> NoSecret, tokenExpiry |-> NoExpiry]

\* The profile saveOAuth2Profile writes: authType, accountId, clientId and the
\* encrypted clientSecret (the prompts' accountId and clientId take one value
\* each; realm, a copy of accountId that no operation here reads, is left
\* out). It has no OAuth 1.0a fields and no token fields.
OAuth2Profile(clientSecret) ==
  [authType |-> "oauth2",
   consumerKey |-> NoParam, consumerSecret |-> NoParam, token |-> NoParam,
   tokenSecret |-> NoParam, realm |-> NoParam,
   accountId |-> "acct", clientId |-> "cid", clientSecret |-> clientSecret,
   accessToken |-> NoParam, refreshToken |-> NoSecret, tokenExpiry |-> NoExpiry]

\* The access token, refresh token and expiry of a profile.
TokenFields(profile) ==
  [accessToken |-> profile.accessToken, refreshToken |-> profile.refreshToken,
   tokenExpiry |-> profile.tokenExpiry]

\* getProfile(profileName): config[profileName] || null
GetProfile(config, name) == config[name]

\* Variant of GetAllProfiles that finds nothing.
NoProfilesListed(config) == {}

\* getAllProfiles(): Object.keys(config)
GetAllProfiles(config) == {n \in ProfileNames : config[n] # NoProfile}

\* ------------------------------------------------------------ environment
EnvFields == {"NSQL_CONSUMER_KEY", "NSQL_CONSUMER_SECRET", "NSQL_TOKEN",
              "NSQL_TOKEN_SECRET", "NSQL_REALM"}
EnvAllSet == [f \in EnvFields |-> "v"]
EnvNoneSet == [f \in EnvFields |-> NoParam]
EnvConfigs ==
  {EnvAllSet, EnvNoneSet,
   [EnvAllSet EXCEPT !["NSQL_REALM"] = NoParam],
   [EnvAllSet EXCEPT !["NSQL_TOKEN"] = ""]}

\* The record getEnvCredentials builds from process.env.
EnvCreds(e) ==
  [consumerKey |-> e["NSQL_CONSUMER_KEY"], consumerSecret |-> e["NSQL_CONSUMER_SECRET"],
   token |-> e["NSQL_TOKEN"], tokenSecret |-> e["NSQL_TOKEN_SECRET"],
   realm |-> e["NSQL_REALM"]]

\* Variant of EnvComplete that is satisfied by one variable.
EnvCompleteAny(e) == \E f \in EnvFields : Truthy(e[f])

\* allSet: Object.values(envCreds).every(v => v && v.length > 0)
EnvComplete(e) == \A f \in EnvFields : Truthy(e[f])

\* getEnvCredentials(): envCreds if all five are set, else null.
GetEnvCredentials(e) == IF EnvComplete(e) THEN EnvCreds(e) ELSE NoProfile

\* ----------------------------------------------------- resolveCredentials
\* Variant of DecryptOAuth2Profile that leaves the refresh token as stored.
DecryptOAuth2ProfileSecretOnly(profile, key) ==
  [profile EXCEPT !.clientSecret = Decrypt(profile.clientSecret, key)]

\* decryptOAuth2Profile(profile)
DecryptOAuth2Profile(profile, key) ==
  [profile EXCEPT
     !.clientSecret = Decrypt(profile.clientSecret, key),
     !.refreshToken = IF TruthySecret(profile.refreshToken)
                      THEN Decrypt(profile.refreshToken, key)
                      ELSE NoSecret]

\* resolveCredentials found nothing.
NoCredentials == [credentials |-> NoProfile, source |-> NoParam, authType |-> NoParam]

\* profile.authType || 'oauth1'
AuthTypeOf(profile) == IF Truthy(profile.authType) THEN profile.authType ELSE "oauth1"

\* Variant of ResolveCredentials that looks at the stored profile first.
ResolveCredentialsProfileFirst(e, config, key, name) ==
  IF GetProfile(config, name) # NoProfile
  THEN [credentials |-> IF AuthTypeOf(GetProfile(config, name)) = "oauth2"
                        THEN DecryptOAuth2Profile(GetProfile(config, name), key)
                        ELSE GetProfile(config, name),
        source |-> "profile", authType |-> AuthTypeOf(GetProfile(config, name))]
  ELSE IF GetEnvCredentials(e) # NoProfile
  THEN [credentials |-> GetEnvCredentials(e), source |-> "environment", authType |-> "oauth1"]
  ELSE NoCredentials

\* resolveCredentials(profileName): the environment first, then the profile.
ResolveCredentials(e, config, key, name) ==
  IF GetEnvCredentials(e) # NoProfile
  THEN [credentials |-> GetEnvCredentials(e), source |-> "environment", authType |-> "oauth1"]
  ELSE IF GetProfile(config, name) # NoProfile
  THEN [credentials |-> IF AuthTypeOf(GetProfile(config, name)) = "oauth2"
                        THEN DecryptOAuth2Profile(GetProfile(config, name), key)
                        ELSE GetProfile(config, name),
        source |-> "profile", authType |-> AuthTypeOf(GetProfile(config, name))]
  ELSE NoCredentials

\* ---------------------------------------------------------- isTokenExpired
\* Variant of IsTokenExpired without the five-minute buffer.
IsTokenExpiredNoBuffer(profile, t) ==
  IF profile.tokenExpiry = NoExpiry \/ ~Truthy(profile.accessToken) THEN TRUE
  ELSE t >= profile.tokenExpiry

\* isTokenExpired(profile), with Date.now() = t
IsTokenExpired(profile, t) ==
  IF profile.tokenExpiry = NoExpiry \/ ~Truthy(profile.accessToken) THEN TRUE
  ELSE t >= profile.tokenExpiry - TOKEN_EXPIRY_BUFFER_MS

\* --------------------------------------------------------------------- Init
\* codeVerifier = crypto.randomBytes(32).toString('base64url').slice(0, 64)
CodeVerifier(bytes) == [base64url |-> bytes]
NoVerifier == CodeVerifier(NoParam)

\* codeChallenge = base64url(sha256(codeVerifier))
CodeChallenge(verifier) == [sha256 |-> verifier]
NoChallenge == CodeChallenge(NoVerifier)

NoPKCE == [codeVerifier |-> NoVerifier, codeChallenge |-> NoChallenge]

\* Variant of GeneratePKCE that gives every attempt the same pair.
GeneratePKCEOnce(bytes) ==
  [codeVerifier |-> CodeVerifier("r1"), codeChallenge |-> CodeChallenge(CodeVerifier("r1"))]

\* generatePKCE(), with `bytes` what crypto.randomBytes(32) returns
GeneratePKCE(bytes) ==
  [codeVerifier |-> CodeVerifier(bytes), codeChallenge |-> CodeChallenge(CodeVerifier(bytes))]

\* redirectUri = `http://localhost:${port}${CALLBACK_PATH}`
RedirectUri(p) == [scheme |-> "http", host |-> "localhost", port |-> p, path |-> CALLBACK_PATH]
NoRedirectUri == [scheme |-> "", host |-> "", port |-> NoPort, path |-> ""]

\* buildAuthorizationUrl(...): the parameters that vary between attempts.
BuildAuthorizationUrl(redirectUri, st, codeChallenge) ==
  [redirect_uri |-> redirectUri, state |-> st, code_challenge |-> codeChallenge,
   code_challenge_method |-> "S256"]
NoAuthUrl == [redirect_uri |-> NoRedirectUri, state |-> NoParam, code_challenge |-> NoChallenge,
              code_challenge_method |-> ""]

NoTokenRequest == [code |-> NoParam, port |-> NoPort, redirect_uri |-> NoRedirectUri,
                   code_verifier |-> NoVerifier]
NoResult == [kind |-> "none", error |-> NoError]

\* executeQuery has not been called.
NoArgs == [profileName |-> NoParam, dryRun |-> FALSE, format |-> NoParam, query |-> NoParam]
NoRefreshResponse == [status |-> "none", accessToken |-> NoParam, refreshToken |-> NoSecret,
                      expiresIn |-> 0]
NoReport == [kind |-> "none", exited |-> FALSE, exitCode |-> 0, profiles |-> {}]
NoExpiryCheck == [accessToken |-> NoParam, tokenExpiry |-> NoExpiry, now |-> 0,
                  checked |-> FALSE, result |-> FALSE]
\* Neither encrypt nor decrypt has been called.
NoCryptoCheck == [calls |-> 0, op |-> "none", text |-> NoSecret, encrypted |-> NoSecret,
                  keyChanged |-> FALSE, input |-> NoSecret, decrypted |-> NoSecret]
\* No token endpoint response has been handled.
\* No response status (no response seen, or an error that carries none).
NoStatus == 0

\* The body of a token endpoint response: its raw text, whether JSON.parse
\* accepts it, and the members the code reads from the parsed object.
NoBody == [raw |-> "", json |-> FALSE, error_description |-> NoParam, error |-> NoParam,
           access_token |-> NoParam, refresh_token |-> NoParam,
           expires_in |-> NoExpiry, token_type |-> NoParam]
NoTokens == [accessToken |-> NoParam, refreshToken |-> NoParam,
             expiresIn |-> NoExpiry, tokenType |-> NoParam]
NoOutcome == [kind |-> "none", what |-> "", status |-> NoStatus, detail |-> "", tokens |-> NoTokens]
NoTokenCheck == [handled |-> FALSE, grant |-> "none", status |-> NoStatus, body |-> NoBody,
                 outcome |-> NoOutcome]

\* No config.json, no key file, no invocation yet.
\* Invocations that may change the store at the same time.
Processes == {"p1", "p2"}
NoOp == [kind |-> "none", name |-> NoParam]
IdleWriter == [pc |-> "idle", op |-> NoOp, config |-> [n \in ProfileNames |-> NoProfile]]

\* replacePlaceholders has not been called.
NoReplaceCheck == [query |-> <<>>, params |-> <<>>, done |-> FALSE, result |-> <<>>]

QueryInit ==
  /\ writers = [p \in Processes |-> IdleWriter]
  /\ store = [n \in ProfileNames |-> NoProfile]
  /\ keyFile = NoKey
  /\ now = ClockStartMs
  /\ saves = <<>>
  /\ qpc = "idle"
  /\ qargs = NoArgs
  /\ env = EnvNoneSet
  /\ resolved = NoCredentials
  /\ refreshRequests = <<>>
  /\ refreshResponse = NoRefreshResponse
  /\ apiCalls = <<>>
  /\ events = <<>>
  /\ report = NoReport

LoginInit ==
  /\ pc = "idle"
  /\ port = NoPort
  /\ state = NoParam
  /\ browser = "unopened"
  /\ tokenRequest = NoTokenRequest
  /\ result = NoResult
  /\ server = "none"
  /\ boundPort = NoPort
  /\ timeoutId = "unset"
  /\ elapsedMs = 0
  /\ callbackPromise = Pending
  /\ conns = 0
  /\ responses = <<>>
  /\ authUrl = NoAuthUrl
  /\ pkce = NoPKCE
  /\ draws = 0
  /\ attempts = <<>>
  /\ steps = <<>>

Init ==
  /\ LoginInit
  /\ QueryInit
  /\ expiryCheck = NoExpiryCheck
  /\ cryptoCheck = NoCryptoCheck
  /\ tokenCheck = NoTokenCheck
  /\ replaceCheck = NoReplaceCheck

\* ------------------------------------------------- the callback server
\* Variant of StartCallbackServer that falls back to the next port when the
\* requested one cannot be bound.
StartCallbackServerNextPort(p, bind) ==
  /\ server' = "listening"
  /\ boundPort' = IF bind = "ok" THEN p ELSE p + 1
  /\ timeoutId' = "armed"
  /\ callbackPromise' = Pending

\* startCallbackServer(port): createServer, on('error'), listen(port, '127.0.0.1').
\* listen() binds at once; its callback (which arms the timer) or the 'error'
\* event of a failed bind runs on the next tick, before login() resumes.
StartCallbackServer(p, bind) ==
  IF bind = "ok"
  THEN /\ server' = "listening"
       /\ boundPort' = p
       /\ timeoutId' = "armed"
       /\ callbackPromise' = Pending
  ELSE /\ server' = "failed"
       /\ boundPort' = NoPort
       /\ timeoutId' = ClearTimeout(timeoutId)
       /\ callbackPromise' = Settle(callbackPromise, Rejected(StartFailedError(p, bind)))

\* Variant of ResponseStatus that answers 200 also when the code is missing.
ResponseStatusNo400(req) == IF ~IsCallbackPath(req.path) THEN 404 ELSE 200

\* HTTP status the request handler writes for a request.
ResponseStatus(req) ==
  IF ~IsCallbackPath(req.path) THEN 404
  ELSE IF Truthy(req.error) THEN 200
  ELSE IF ~Truthy(req.code) THEN 400
  ELSE 200

\* Variant of CallbackOutcome that resolves without the request's state.
CallbackOutcomeDropsState(req) ==
  IF Truthy(req.error) THEN Rejected(DeniedError(req.error))
  ELSE IF ~Truthy(req.code) THEN Rejected(NoCodeError)
  ELSE Resolved(req.code, NoParam)

\* What the request handler settles the promise with for a callback-path request.
CallbackOutcome(req) ==
  IF Truthy(req.error) THEN Rejected(DeniedError(req.error))
  ELSE IF ~Truthy(req.code) THEN Rejected(NoCodeError)
  ELSE Resolved(req.code, req.state)

\* A client connects while the server is listening.
Connect ==
  /\ server = "listening"
  /\ conns + Len(responses) < MaxRequests
  /\ conns' = conns + 1
  /\ UNCHANGED <<loginVars, serverVars, elapsedMs, responses, queryVars>>

\* The request handler passed to http.createServer. It runs for every request
\* that arrives on an accepted connection, also after server.close().
HandleRequest(req) ==
  /\ conns > 0
  /\ conns' = conns - 1
  /\ responses' = Append(responses, ResponseStatus(req))
  /\ IF ~IsCallbackPath(req.path)
     THEN UNCHANGED serverVars
     ELSE /\ timeoutId' = ClearTimeout(timeoutId)
          /\ server' = Close(server)
          /\ callbackPromise' = Settle(callbackPromise, CallbackOutcome(req))
          /\ UNCHANGED boundPort
  /\ UNCHANGED <<loginVars, elapsedMs, queryVars>>

\* server.on('error') while the server is listening (a failed accept).
ServerError(cause) ==
  /\ server = "listening"
  /\ timeoutId' = ClearTimeout(timeoutId)
  /\ callbackPromise' = Settle(callbackPromise, Rejected(StartFailedError(port, cause)))
  /\ UNCHANGED <<loginVars, server, boundPort, elapsedMs, netVars, queryVars>>

\* Time passes.
Tick ==
  /\ pc # "idle"
  /\ elapsedMs < CALLBACK_TIMEOUT_MS
  /\ elapsedMs' = elapsedMs + TickMs
  /\ UNCHANGED <<loginVars, serverVars, netVars, queryVars>>

\* The setTimeout callback, CALLBACK_TIMEOUT_MS after the server started listening.
TimerFired ==
  /\ timeoutId = "armed"
  /\ elapsedMs >= CALLBACK_TIMEOUT_MS
  /\ timeoutId' = "fired"
  /\ IF server = "listening"
     THEN /\ server' = Close(server)
          /\ callbackPromise' = Settle(callbackPromise, Rejected(TimeoutError))
     ELSE UNCHANGED <<server, callbackPromise>>
  /\ UNCHANGED <<loginVars, boundPort, elapsedMs, netVars, queryVars>>

\* ------------------------------------------------------------------ login
\* Variant of StateMatches that lets a callback without a state through.
StateMatchesLenient(returnedState, generated) ==
  returnedState = NoParam \/ returnedState = generated

\* returnedState !== state
StateMatches(returnedState, generated) == returnedState = generated

\* Variant of LoginSteps that shows the URL before the server is started.
LoginStepsPrintFirst == <<"print", "listen">>

\* login's order up to its first await: startCallbackServer(port), then the
\* console.log of the authorization URL.
LoginSteps == <<"listen", "print">>

\* login(profile, port) up to its first await: redirect URI, PKCE pair, state
\* token, authorization URL, startCallbackServer(port), the printed URL.
Login(p, s, bind) ==
  /\ pc = "idle"
  /\ draws < Len(RandomBytes)
  /\ port' = p
  /\ draws' = draws + 1
  /\ pkce' = GeneratePKCE(RandomBytes[draws'])
  /\ state' = s
  /\ authUrl' = BuildAuthorizationUrl(RedirectUri(p), s, pkce'.codeChallenge)
  /\ StartCallbackServer(p, bind)
  /\ steps' = LoginSteps
  /\ pc' = "opening"
  /\ UNCHANGED <<browser, tokenRequest, result, elapsedMs, netVars, attempts, queryVars>>

\* await import('open'); await open(authUrl) returns.
OpenSucceeds ==
  /\ pc = "opening"
  /\ browser' = "opened"
  /\ steps' = Append(steps, "open")
  /\ pc' = "waiting"
  /\ UNCHANGED <<port, state, tokenRequest, result, serverVars, elapsedMs, netVars,
                 pkceVars, queryVars>>

\* await import('open') or await open(authUrl) rejects: login() rejects with it.
OpenFails ==
  /\ pc = "opening"
  /\ browser' = "failed"
  /\ result' = [kind |-> "error", error |-> OpenError]
  /\ pc' = "done"
  /\ UNCHANGED <<port, state, tokenRequest, serverVars, elapsedMs, netVars, pkceVars,
                 steps, queryVars>>

\* await callbackPromise settles; the state check; the code exchange is sent.
AwaitCallback ==
  /\ pc = "waiting"
  /\ callbackPromise.status # "pending"
  /\ IF callbackPromise.status = "rejected"
     THEN /\ result' = [kind |-> "error", error |-> callbackPromise.error]
          /\ pc' = "done"
          /\ UNCHANGED <<tokenRequest, steps>>
     ELSE IF ~StateMatches(callbackPromise.state, state)
     THEN /\ result' = [kind |-> "error", error |-> StateMismatchError]
          /\ pc' = "done"
          /\ UNCHANGED <<tokenRequest, steps>>
     ELSE /\ tokenRequest' = [code |-> callbackPromise.code, port |-> port,
                               redirect_uri |-> RedirectUri(port),
                               code_verifier |-> pkce.codeVerifier]
          /\ steps' = Append(steps, "exchange")
          /\ pc' = "exchanging"
          /\ UNCHANGED result
  /\ UNCHANGED <<port, state, browser, serverVars, elapsedMs, netVars, pkceVars, queryVars>>

\* The token endpoint answers the code exchange.
TokenResponse(status) ==
  /\ pc = "exchanging"
  /\ result' = IF status = 200
               THEN [kind |-> "tokens", error |-> NoError]
               ELSE [kind |-> "error", error |-> ExchangeError(status)]
  /\ pc' = "done"
  /\ UNCHANGED <<port, state, browser, tokenRequest, serverVars, elapsedMs, netVars,
                 pkceVars, steps, queryVars>>

\* --------------------------------------------------------------------- Next
Next ==
  \/ \E p \in Ports, s \in States, bind \in {"ok"} \cup BindCauses : Login(p, s, bind)
  \/ OpenSucceeds
  \/ OpenFails
  \/ AwaitCallback
  \/ \E status \in TokenStatuses : TokenResponse(status)
  \/ Connect
  \/ \E req \in Requests : HandleRequest(req)
  \/ \E cause \in AcceptCauses : ServerError(cause)
  \/ Tick
  \/ TimerFired

Spec == Init /\ [][Next]_vars

\* The login command is run again after an attempt has ended: a new process,
\* with nothing left of the earlier one but what the history keeps of it.
NextAttempt ==
  /\ pc = "done"
  /\ draws < Len(RandomBytes)
  /\ attempts' = Append(attempts, [codeVerifier |-> pkce.codeVerifier,
                                    codeChallenge |-> authUrl.code_challenge,
                                    sentVerifier |-> tokenRequest.code_verifier])
  /\ pc' = "idle"
  /\ port' = NoPort
  /\ state' = NoParam
  /\ browser' = "unopened"
  /\ tokenRequest' = NoTokenRequest
  /\ result' = NoResult
  /\ server' = "none"
  /\ boundPort' = NoPort
  /\ timeoutId' = "unset"
  /\ elapsedMs' = 0
  /\ callbackPromise' = Pending
  /\ conns' = 0
  /\ responses' = <<>>
  /\ authUrl' = NoAuthUrl
  /\ pkce' = NoPKCE
  /\ steps' = <<>>
  /\ UNCHANGED <<draws, queryVars>>

AttemptsNext == Next \/ NextAttempt

AttemptsSpec == Init /\ [][AttemptsNext]_vars

\* The event loop runs every ready callback and continuation, the clock advances,
\* and the external calls (open, fetch) return. Incoming requests are not owed.
FairSpec ==
  /\ Spec
  /\ WF_vars(Tick)
  /\ WF_vars(TimerFired)
  /\ WF_vars(OpenSucceeds \/ OpenFails)
  /\ WF_vars(AwaitCallback)
  /\ WF_vars(\E status \in TokenStatuses : TokenResponse(status))


\* ---------------------------------------------------- writing the store
\* The three token fields as saveOAuth2Tokens stores them.
\* Variant of StoredTokens that stores the access token and the expiry only.
StoredTokensNoRefresh(tokens, key, iv) ==
  [accessToken |-> tokens.accessToken, refreshToken |-> NoSecret,
   tokenExpiry |-> tokens.tokenExpiry]

StoredTokens(tokens, key, iv) ==
  [accessToken |-> tokens.accessToken,
   refreshToken |-> Encrypt(tokens.refreshToken, key, iv),
   tokenExpiry |-> tokens.tokenExpiry]

\* Variant of SavedTokens that also writes the client secret field.
SavedTokensAndSecret(config, name, tokens, key, iv) ==
  [config EXCEPT ![name] =
     [OAuth2Profile(Cipher(tokens.accessToken, key, iv)) EXCEPT
        !.accessToken = StoredTokens(tokens, key, iv).accessToken,
        !.refreshToken = StoredTokens(tokens, key, iv).refreshToken,
        !.tokenExpiry = StoredTokens(tokens, key, iv).tokenExpiry]]

\* The document saveOAuth2Tokens(profileName, tokens) writes, for a profile
\* that exists.
SavedTokens(config, name, tokens, key, iv) ==
  [config EXCEPT ![name] =
     [@ EXCEPT
        !.accessToken = StoredTokens(tokens, key, iv).accessToken,
        !.refreshToken = StoredTokens(tokens, key, iv).refreshToken,
        !.tokenExpiry = StoredTokens(tokens, key, iv).tokenExpiry]]

\* ------------------------------------------------------------- configure
\* A value that is not a string, and a string of white space.
NonString == "<non-string>"
Blank == "  "

\* What the prompts of configureOAuth1 can hand back.
ValidAnswers == [f \in LegacyFields |-> "v"]
OAuth1Answers ==
  {ValidAnswers,
   [ValidAnswers EXCEPT !["token"] = ""],
   [ValidAnswers EXCEPT !["realm"] = Blank],
   [ValidAnswers EXCEPT !["consumerKey"] = NoParam],
   [ValidAnswers EXCEPT !["tokenSecret"] = NonString]}

\* What the prompts of configureOAuth2 can hand back.
OAuth2Answers ==
  [accountId : {"acct"}, clientId : {"cid"}, clientSecret : ClientSecrets \cup {""}]

\* value.trim() returns: only a string has the method.
CanTrim(v) == v \notin {NoParam, NonString}
Trim(v) == IF v = Blank THEN "" ELSE v

\* profileData of configureOAuth1: every answer trimmed.
TrimmedAnswers(answers) == [f \in LegacyFields |-> Trim(answers[f])]

\* profileData[field] && typeof profileData[field] === 'string'
RequiredString(v) == Truthy(v) /\ v # NonString

\* Variant of ValidateProfile that accepts everything.
ValidateProfileAny(profileData) == TRUE

\* validateProfile(profileData)
ValidateProfile(profileData) ==
  IF "authType" \in DOMAIN profileData /\ profileData.authType = "oauth2"
  THEN \A f \in {"accountId", "clientId", "clientSecret"} : RequiredString(profileData[f])
  ELSE \A f \in LegacyFields : RequiredString(profileData[f])

\* A configure or save operation ends: its outcome is saved, rejected or not_found.
Outcome(o) ==
  /\ qpc = "idle"
  /\ Len(saves) < MaxSaves
  /\ saves' = Append(saves, o)

\* Variant of SaveProfile that writes a document holding the named profile only.
SaveProfileAlone(name, profileData) ==
  /\ Outcome("saved")
  /\ store' = [n \in ProfileNames |->
                 IF n = name THEN OAuth1Profile(profileData) ELSE NoProfile]
  /\ UNCHANGED <<loginSide, keyFile, now, invocationVars, checkVars>>

\* saveProfile(profileName, profileData)
SaveProfile(name, profileData) ==
  /\ Outcome("saved")
  /\ store' = [store EXCEPT ![name] = OAuth1Profile(profileData)]
  /\ UNCHANGED <<loginSide, keyFile, now, invocationVars, checkVars>>

\* configureOAuth1 from the prompts' answers on: trim, validateProfile,
\* saveProfile. A TypeError of trim() and the 'Invalid profile data' error
\* both end in configure's catch, before anything is saved.
ConfigureOAuth1(name, answers) ==
  IF /\ \A f \in LegacyFields : CanTrim(answers[f])
     /\ ValidateProfile(TrimmedAnswers(answers))
  THEN SaveProfile(name, TrimmedAnswers(answers))
  ELSE /\ Outcome("rejected")
       /\ UNCHANGED <<loginSide, store, keyFile, now, invocationVars, checkVars>>

\* Variant of SaveOAuth2Profile that updates the fields of a profile it finds
\* and keeps the others.
SaveOAuth2ProfileMerged(name, clientSecret, fresh, iv) ==
  /\ Outcome("saved")
  /\ keyFile' = IF TruthySecret(Plain(clientSecret))
                THEN GetEncryptionKey(keyFile, fresh)
                ELSE keyFile
  /\ store' = [store EXCEPT ![name] =
                 IF @ = NoProfile
                 THEN OAuth2Profile(Encrypt(Plain(clientSecret), keyFile', iv))
                 ELSE [@ EXCEPT !.authType = "oauth2", !.accountId = "acct",
                                !.clientId = "cid",
                                !.clientSecret = Encrypt(Plain(clientSecret), keyFile', iv)]]
  /\ UNCHANGED <<loginSide, now, invocationVars, checkVars>>

\* saveOAuth2Profile(profileName, {accountId, clientId, clientSecret}).
\* The stored profile is replaced; token fields it had are gone.
SaveOAuth2Profile(name, clientSecret, fresh, iv) ==
  /\ Outcome("saved")
  /\ keyFile' = IF TruthySecret(Plain(clientSecret))
                THEN GetEncryptionKey(keyFile, fresh)
                ELSE keyFile
  /\ store' = [store EXCEPT ![name] =
                 OAuth2Profile(Encrypt(Plain(clientSecret), keyFile', iv))]
  /\ UNCHANGED <<loginSide, now, invocationVars, checkVars>>

\* configureOAuth2 from the prompts' answers on: validateProfile with
\* authType 'oauth2', then saveOAuth2Profile.
ConfigureOAuth2(name, answers, fresh, iv) ==
  IF ValidateProfile([authType |-> "oauth2", accountId |-> answers.accountId,
                      clientId |-> answers.clientId,
                      clientSecret |-> answers.clientSecret])
  THEN SaveOAuth2Profile(name, answers.clientSecret, fresh, iv)
  ELSE /\ Outcome("rejected")
       /\ UNCHANGED <<loginSide, store, keyFile, now, invocationVars, checkVars>>

\* Variant of SaveOAuth2Tokens that creates the profile it does not find.
SaveOAuth2TokensUpsert(name, accessToken, refreshToken, expiresIn, fresh, iv) ==
  /\ Outcome("saved")
  /\ store' = [store EXCEPT ![name] =
                 [OAuth2Profile(NoSecret) EXCEPT !.accessToken = accessToken]]
  /\ UNCHANGED <<loginSide, keyFile, now, invocationVars, checkVars>>

\* saveOAuth2Tokens(profileName, tokens) with what login() returned:
\* tokenExpiry is Date.now() + expiresIn * 1000. It throws
\* `Profile '${profileName}' not found` for a profile that does not exist.
SaveOAuth2Tokens(name, accessToken, refreshToken, expiresIn, fresh, iv) ==
  IF GetProfile(store, name) = NoProfile
  THEN /\ Outcome("not_found")
       /\ UNCHANGED <<loginSide, store, keyFile, now, invocationVars, checkVars>>
  ELSE /\ Outcome("saved")
       /\ keyFile' = IF TruthySecret(refreshToken)
                     THEN GetEncryptionKey(keyFile, fresh)
                     ELSE keyFile
       /\ store' = SavedTokens(store, name,
                               [accessToken |-> accessToken, refreshToken |-> refreshToken,
                                tokenExpiry |-> now + expiresIn * 1000],
                               keyFile', iv)
       /\ UNCHANGED <<loginSide, now, invocationVars, checkVars>>

\* Date.now() advances.
ClockTick ==
  /\ qpc # "done"
  /\ now < ClockStartMs + MaxClockSteps * ClockStepMs
  /\ now' = now + ClockStepMs
  /\ UNCHANGED <<loginSide, store, keyFile, saves, invocationVars, checkVars>>

\* ------------------------------------------------------------ executeQuery
Formats == {"json", "xml"}
Queries == {"SELECT 1", ""}
\* What the token endpoint can answer to a refresh.
NewAccessTokens == {"at2"}
NewRefreshTokens == {NoSecret, Plain("rt2")}

\* format !== 'json' && format !== 'csv'
ValidFormat(format) == format \in {"json", "csv"}

\* Variant of HasTokens that takes every profile as logged in.
HasTokensAlways(credentials) == TRUE

\* !accessToken || !refreshToken
HasTokens(credentials) ==
  Truthy(credentials.accessToken) /\ TruthySecret(credentials.refreshToken)

\* Variant of RefreshRequest that sends no refresh token.
RefreshRequestNoToken(credentials) ==
  [grantType |-> "refresh_token", refreshToken |-> NoSecret,
   clientSecret |-> credentials.clientSecret]

\* The POST refreshAccessToken sends: grant_type, refresh_token, Basic auth.
RefreshRequest(credentials) ==
  [grantType |-> "refresh_token", refreshToken |-> credentials.refreshToken,
   clientSecret |-> credentials.clientSecret]

\* What refreshAccessToken returns for a 200 response: accessToken,
\* refreshToken (data.refresh_token || null), expiresIn.
RefreshedTokens(accessToken, refreshToken, expiresIn) ==
  [status |-> "ok", accessToken |-> accessToken,
   refreshToken |-> IF TruthySecret(refreshToken) THEN refreshToken ELSE NoSecret,
   expiresIn |-> expiresIn]

\* refreshAccessToken threw: `Token refresh failed (${status}): ${detail}`
RefreshFailure == [NoRefreshResponse EXCEPT !.status = "failed"]

\* Variant of NewRefreshToken that stores what the response held, or nothing.
NewRefreshTokenFromResponse(tokens, refreshToken) == tokens.refreshToken

\* newRefreshToken = tokens.refreshToken || refreshToken
NewRefreshToken(tokens, refreshToken) ==
  IF TruthySecret(tokens.refreshToken) THEN tokens.refreshToken ELSE refreshToken

\* Variant of RefreshedAccessToken that goes on with the old access token.
RefreshedAccessTokenOld(accessToken, tokens) == accessToken

\* accessToken = tokens.accessToken
RefreshedAccessToken(accessToken, tokens) == tokens.accessToken

\* executeSuiteQL's request: Authorization: Bearer <accessToken>
BearerCall(accessToken) == [auth |-> "bearer", accessToken |-> accessToken]

\* executeOAuth1Query: the request of the OAuth 1.0a client library.
OAuth1Call == [auth |-> "oauth1", accessToken |-> NoParam]

\* What executeQuery prints before it ends, and its exit code.
Threw == [NoReport EXCEPT !.kind = "threw"]
\* Variant of DryRunReport that ends the process with status 1.
DryRunExit1 == [NoReport EXCEPT !.kind = "dry_run", !.exited = TRUE, !.exitCode = 1]
DryRunReport == [NoReport EXCEPT !.kind = "dry_run"]
Exit1(kind) == [NoReport EXCEPT !.kind = kind, !.exited = TRUE, !.exitCode = 1]
\* 'Error: No credentials found.' and 'Or use an existing profile: ...'
NoCredentialsReport(config) == [Exit1("no_credentials") EXCEPT !.profiles = GetAllProfiles(config)]
\* Variant of RefreshFailedReport that ends as a success.
RefreshFailedQuiet == [NoReport EXCEPT !.kind = "refresh_failed"]
\* 'Token refresh failed: ...', "Run 'nsql-cli login --profile ...' to re-authenticate."
RefreshFailedReport == Exit1("refresh_failed")
\* The results were printed.
ResultsReport == [NoReport EXCEPT !.kind = "results"]

\* executeQuery returns, throws or calls process.exit.
End(r) ==
  /\ qpc' = "done"
  /\ report' = r

\* executeQuery(query, profileName, dryRun, format) up to its first await:
\* the argument check, resolveCredentials, the dry-run branch, the
\* no-credentials branch, the format check, and executeOAuth2Query up to the
\* refresh request or executeSuiteQL's fetch.
ExecuteQuery(query, name, dryRun, format, e) ==
  /\ qpc = "idle"
  /\ qargs' = [profileName |-> name, dryRun |-> dryRun, format |-> format, query |-> query]
  /\ env' = e
  /\ IF ~Truthy(query)
     THEN /\ End(Threw)
          /\ UNCHANGED <<resolved, refreshRequests, apiCalls, events>>
     ELSE /\ resolved' = ResolveCredentials(e, store, keyFile, name)
          /\ IF dryRun
             THEN /\ End(DryRunReport)
                  /\ UNCHANGED <<refreshRequests, apiCalls, events>>
             ELSE IF resolved'.credentials = NoProfile
             THEN /\ End(NoCredentialsReport(store))
                  /\ UNCHANGED <<refreshRequests, apiCalls, events>>
             ELSE IF ~ValidFormat(format)
             THEN /\ End(Exit1("invalid_format"))
                  /\ UNCHANGED <<refreshRequests, apiCalls, events>>
             ELSE IF resolved'.authType # "oauth2"
             THEN /\ qpc' = "querying"
                  /\ apiCalls' = Append(apiCalls, OAuth1Call)
                  /\ events' = Append(events, "api")
                  /\ UNCHANGED <<refreshRequests, report>>
             ELSE IF ~HasTokens(resolved'.credentials)
             THEN /\ End(Exit1("no_tokens"))
                  /\ UNCHANGED <<refreshRequests, apiCalls, events>>
             ELSE IF IsTokenExpired(resolved'.credentials, now)
             THEN /\ qpc' = "refreshing"
                  /\ refreshRequests' = Append(refreshRequests,
                                               RefreshRequest(resolved'.credentials))
                  /\ events' = Append(events, "refresh")
                  /\ UNCHANGED <<apiCalls, report>>
             ELSE /\ qpc' = "querying"
                  /\ apiCalls' = Append(apiCalls, BearerCall(resolved'.credentials.accessToken))
                  /\ events' = Append(events, "api")
                  /\ UNCHANGED <<refreshRequests, report>>
  /\ UNCHANGED <<loginSide, diskVars, refreshResponse, checkVars>>

\* await refreshAccessToken(...) returns tokens: the expiry is computed, the
\* tokens are saved, and executeSuiteQL sends the query with the new access
\* token. A throw of saveOAuth2Tokens lands in the same catch as a failed refresh.
RefreshSucceeds(accessToken, refreshToken, expiresIn, iv) ==
  /\ qpc = "refreshing"
  /\ refreshResponse' = RefreshedTokens(accessToken, refreshToken, expiresIn)
  /\ IF GetProfile(store, qargs.profileName) = NoProfile
     THEN /\ End(RefreshFailedReport)
          /\ UNCHANGED <<store, apiCalls, events>>
     ELSE /\ store' = SavedTokens(store, qargs.profileName,
                         [accessToken |-> refreshResponse'.accessToken,
                          refreshToken |-> NewRefreshToken(refreshResponse',
                                                           resolved.credentials.refreshToken),
                          tokenExpiry |-> now + refreshResponse'.expiresIn * 1000],
                         keyFile, iv)
          /\ apiCalls' = Append(apiCalls,
                                BearerCall(RefreshedAccessToken(resolved.credentials.accessToken,
                                                                refreshResponse')))
          /\ events' = events \o <<"save", "api">>
          /\ qpc' = "querying"
          /\ UNCHANGED report
  /\ UNCHANGED <<loginSide, keyFile, now, saves, qargs, env, resolved, refreshRequests,
                 checkVars>>

\* await refreshAccessToken(...) throws: the catch block prints and exits.
RefreshFails ==
  /\ qpc = "refreshing"
  /\ refreshResponse' = RefreshFailure
  /\ End(RefreshFailedReport)
  /\ UNCHANGED <<loginSide, diskVars, qargs, env, resolved, refreshRequests, apiCalls,
                 events, checkVars>>

\* Variant of QueryResponse that answers a failed call of a delegated profile
\* with a refresh request instead of ending.
QueryResponseReactive(ok) ==
  /\ qpc = "querying"
  /\ IF ~ok /\ resolved.authType = "oauth2"
     THEN /\ qpc' = "refreshing"
          /\ refreshRequests' = Append(refreshRequests, RefreshRequest(resolved.credentials))
          /\ events' = Append(events, "refresh")
          /\ UNCHANGED report
     ELSE /\ End(IF ok THEN ResultsReport ELSE Exit1("query_failed"))
          /\ UNCHANGED <<refreshRequests, events>>
  /\ UNCHANGED <<loginSide, diskVars, qargs, env, resolved, refreshResponse, apiCalls,
                 checkVars>>

\* The remote query API answers: the results are printed, or the catch block
\* of executeQuery prints the error and exits.
QueryResponse(ok) ==
  /\ qpc = "querying"
  /\ End(IF ok THEN ResultsReport ELSE Exit1("query_failed"))
  /\ UNCHANGED <<loginSide, diskVars, qargs, env, resolved, refreshRequests,
                 refreshResponse, apiCalls, events, checkVars>>

QueryNext ==
  \/ \E name \in ProfileNames, answers \in OAuth1Answers : ConfigureOAuth1(name, answers)
  \/ \E name \in ProfileNames, answers \in OAuth2Answers, fresh \in Keys, iv \in IVs :
       ConfigureOAuth2(name, answers, fresh, iv)
  \/ \E name \in ProfileNames, at \in AccessTokens, rt \in RefreshTokens,
        expiresIn \in ExpiresIns, fresh \in Keys, iv \in IVs :
       SaveOAuth2Tokens(name, at, Plain(rt), expiresIn, fresh, iv)
  \/ ClockTick
  \/ \E query \in Queries, name \in ProfileNames, dryRun \in BOOLEAN,
        format \in Formats, e \in EnvConfigs :
       ExecuteQuery(query, name, dryRun, format, e)
  \/ \E at \in NewAccessTokens, rt \in NewRefreshTokens, expiresIn \in ExpiresIns,
        iv \in IVs :
       RefreshSucceeds(at, rt, expiresIn, iv)
  \/ RefreshFails
  \/ \E ok \in BOOLEAN : QueryResponse(ok)

\* Configure and login commands, then one query invocation.
QuerySpec == Init /\ [][QueryNext]_vars

\* ---------------------------------------------- isTokenExpired on its own
ExpiryStepMs == 150000
ExpiryInputs ==
  [accessToken : {NoParam, "", "at1"},
   tokenExpiry : {NoExpiry} \cup {ClockStartMs + k * ExpiryStepMs : k \in 0..MaxExpirySteps},
   now : {ClockStartMs + k * ClockStepMs : k \in 0..MaxClockSteps},
   checked : {FALSE},
   result : {FALSE}]

\* A profile and a value of Date.now().
ExpiryInit ==
  /\ LoginInit
  /\ QueryInit
  /\ expiryCheck \in ExpiryInputs
  /\ cryptoCheck = NoCryptoCheck
  /\ tokenCheck = NoTokenCheck
  /\ replaceCheck = NoReplaceCheck

\* isTokenExpired(profile) is called.
CheckExpiry ==
  /\ ~expiryCheck.checked
  /\ expiryCheck' = [expiryCheck EXCEPT
                       !.checked = TRUE,
                       !.result = IsTokenExpired(expiryCheck, expiryCheck.now)]
  /\ UNCHANGED <<loginSide, diskVars, invocationVars, cryptoCheck, tokenCheck, otherChecks>>

ExpiryNext == CheckExpiry

ExpirySpec == ExpiryInit /\ [][ExpiryNext]_vars


\* ------------------------------- the token endpoint's answer, on its own
Grants == {"authorization_code", "refresh_token"}
ResponseStatuses == {200, 201, 302, 400, 401, 500}

\* Bodies a token endpoint may send.
ResponseBodies ==
  {NoBody,
   [NoBody EXCEPT !.raw = "Bad Gateway"],
   [NoBody EXCEPT !.raw = "{}", !.json = TRUE],
   [NoBody EXCEPT !.raw = "{error}", !.json = TRUE, !.error = "invalid_grant"],
   [NoBody EXCEPT !.raw = "{error,description}", !.json = TRUE, !.error = "invalid_grant",
                  !.error_description = "code expired"],
   [NoBody EXCEPT !.raw = "{error,empty description}", !.json = TRUE,
                  !.error = "invalid_client", !.error_description = ""],
   [NoBody EXCEPT !.raw = "{tokens}", !.json = TRUE, !.access_token = "at2",
                  !.refresh_token = "rt2", !.expires_in = 600, !.token_type = "Bearer"],
   [NoBody EXCEPT !.raw = "{tokens, no refresh_token}", !.json = TRUE, !.access_token = "at2",
                  !.expires_in = 600, !.token_type = "Bearer"]}

\* response.ok
ResponseOk(status) == status >= 200 /\ status <= 299

\* Variant of ErrorDetail that always gives the raw body.
ErrorDetailRaw(body) == body.raw

\* detail = parsed.error_description || parsed.error || errorBody, and the raw
\* body when JSON.parse throws.
ErrorDetail(body) ==
  IF ~body.json THEN body.raw
  ELSE IF Truthy(body.error_description) THEN body.error_description
  ELSE IF Truthy(body.error) THEN body.error
  ELSE body.raw

\* What the two token calls make of a response: an Error with the status and
\* the detail for a non-2xx answer, a SyntaxError from response.json() for a
\* 2xx answer that is not JSON, else the token record.
TokenCallOutcome(grant, status, body) ==
  IF ~ResponseOk(status)
  THEN [NoOutcome EXCEPT
          !.kind = "error",
          !.what = IF grant = "authorization_code" THEN "Token exchange failed"
                   ELSE "Token refresh failed",
          !.status = status,
          !.detail = ErrorDetail(body)]
  ELSE IF ~body.json
  THEN [NoOutcome EXCEPT !.kind = "error", !.what = "SyntaxError"]
  ELSE [NoOutcome EXCEPT
          !.kind = "tokens",
          !.tokens = [accessToken |-> body.access_token,
                      refreshToken |-> body.refresh_token,
                      expiresIn |-> body.expires_in,
                      tokenType |-> body.token_type]]

\* A grant and the response the token endpoint gives to it.
TokenInit ==
  /\ LoginInit
  /\ QueryInit
  /\ expiryCheck = NoExpiryCheck
  /\ replaceCheck = NoReplaceCheck
  /\ cryptoCheck = NoCryptoCheck
  /\ tokenCheck \in {[NoTokenCheck EXCEPT !.grant = g, !.status = s, !.body = b] :
                       g \in Grants, s \in ResponseStatuses, b \in ResponseBodies}

\* exchangeCodeForTokens or refreshAccessToken handles the response.
HandleTokenResponse ==
  /\ ~tokenCheck.handled
  /\ tokenCheck' = [tokenCheck EXCEPT
                      !.handled = TRUE,
                      !.outcome = TokenCallOutcome(tokenCheck.grant, tokenCheck.status,
                                                   tokenCheck.body)]
  /\ UNCHANGED <<loginSide, diskVars, invocationVars, expiryCheck, cryptoCheck, otherChecks>>

TokenNext == HandleTokenResponse

TokenSpec == TokenInit /\ [][TokenNext]_vars

\* ------------------------------------------- encrypt and decrypt on their own
\* Arguments tried: absent, empty, a text, a text that contains ':'.
CryptoInputs == {NoSecret, Plain(""), Plain("x")} \cup {Plain(t) : t \in SeparatorTexts}

\* encrypt(text) is called.
EncryptCall(text, fresh, iv) ==
  /\ cryptoCheck.calls < MaxCryptoCalls
  /\ keyFile' = IF TruthySecret(text) THEN GetEncryptionKey(keyFile, fresh) ELSE keyFile
  /\ cryptoCheck' = [cryptoCheck EXCEPT
                       !.calls = @ + 1,
                       !.op = "encrypt",
                       !.text = text,
                       !.encrypted = Encrypt(text, keyFile', iv),
                       !.keyChanged = FALSE]
  /\ UNCHANGED <<loginSide, store, now, saves, invocationVars, expiryCheck, tokenCheck,
                 otherChecks>>

\* decrypt(text) is called, with one of the arguments above or with what the
\* last encrypt call returned.
DecryptCall(v, fresh) ==
  /\ cryptoCheck.calls < MaxCryptoCalls
  /\ keyFile' = IF TruthySecret(v) /\ HasSeparator(v)
                THEN GetEncryptionKey(keyFile, fresh)
                ELSE keyFile
  /\ cryptoCheck' = [cryptoCheck EXCEPT
                       !.calls = @ + 1,
                       !.op = "decrypt",
                       !.input = v,
                       !.decrypted = Decrypt(v, keyFile')]
  /\ UNCHANGED <<loginSide, store, now, saves, invocationVars, expiryCheck, tokenCheck,
                 otherChecks>>

\* The key file is removed or replaced from outside the program.
KeyFileReplaced(k) ==
  /\ keyFile # NoKey
  /\ k # keyFile
  /\ keyFile' = k
  /\ cryptoCheck' = [cryptoCheck EXCEPT !.keyChanged = TRUE]
  /\ UNCHANGED <<loginSide, store, now, saves, invocationVars, expiryCheck, tokenCheck,
                 otherChecks>>

CryptoNext ==
  \/ \E text \in CryptoInputs, fresh \in Keys, iv \in IVs : EncryptCall(text, fresh, iv)
  \/ \E v \in CryptoInputs \cup {cryptoCheck.encrypted}, fresh \in Keys : DecryptCall(v, fresh)
  \/ \E k \in Keys \cup {NoKey} : KeyFileReplaced(k)

CryptoSpec == Init /\ [][CryptoNext]_vars

\* ------------------------------------- the key file under all key operations
\* resolveCredentials(profileName) is called; decrypt reads the key file for
\* every stored value that has the iv: separator.
ResolveCall(name, e, fresh) ==
  /\ qpc = "idle"
  /\ LET profile == GetProfile(store, name)
         decrypts == /\ GetEnvCredentials(e) = NoProfile
                     /\ profile # NoProfile
                     /\ AuthTypeOf(profile) = "oauth2"
                     /\ \E f \in {"clientSecret", "refreshToken"} :
                          TruthySecret(profile[f]) /\ HasSeparator(profile[f])
     IN  keyFile' = IF decrypts THEN GetEncryptionKey(keyFile, fresh) ELSE keyFile
  /\ resolved' = ResolveCredentials(e, store, keyFile', name)
  /\ UNCHANGED <<loginSide, store, now, saves, qpc, qargs, env, refreshRequests,
                 refreshResponse, apiCalls, events, report, checkVars>>

\* encrypt and decrypt calls, saves and resolutions in any order, with nothing
\* but the program touching the key file.
KeyNext ==
  \/ \E text \in CryptoInputs, fresh \in Keys, iv \in IVs : EncryptCall(text, fresh, iv)
  \/ \E v \in CryptoInputs \cup {cryptoCheck.encrypted}, fresh \in Keys : DecryptCall(v, fresh)
  \/ \E name \in ProfileNames, answers \in OAuth1Answers : ConfigureOAuth1(name, answers)
  \/ \E name \in ProfileNames, answers \in OAuth2Answers, fresh \in Keys, iv \in IVs :
       ConfigureOAuth2(name, answers, fresh, iv)
  \/ \E name \in ProfileNames, at \in AccessTokens, rt \in RefreshTokens,
        expiresIn \in ExpiresIns, fresh \in Keys, iv \in IVs :
       SaveOAuth2Tokens(name, at, Plain(rt), expiresIn, fresh, iv)
  \/ \E name \in ProfileNames, e \in {EnvAllSet, EnvNoneSet}, fresh \in Keys :
       ResolveCall(name, e, fresh)

KeySpec == Init /\ [][KeyNext]_vars


\* ------------------------------------------ invocations writing concurrently
\* The store mutations an invocation can make.
RaceOps == [kind : {"saveProfile", "saveOAuth2Profile", "saveOAuth2Tokens"}, name : ProfileNames]

\* Variant of WrittenConfig that changes only the named profile of the document
\* that is on disk at the time of the write.
WrittenConfigMerged(current, config, name) == [current EXCEPT ![name] = config[name]]

\* writeConfig(config): fs.writeFileSync replaces the file by the whole document
\* the caller holds, whatever the file contains by then.
WrittenConfig(current, config, name) == config

\* The document the operation holds when it calls writeConfig: what readConfig
\* returned, with the named profile assigned.
ChangedConfig(config, op, key, iv, t) ==
  IF op.kind = "saveProfile"
  THEN [config EXCEPT ![op.name] = OAuth1Profile(ValidAnswers)]
  ELSE IF op.kind = "saveOAuth2Profile"
  THEN [config EXCEPT ![op.name] = OAuth2Profile(Encrypt(Plain("cs1"), key, iv))]
  ELSE SavedTokens(config, op.name,
                   [accessToken |-> "at1", refreshToken |-> Plain("rt1"),
                    tokenExpiry |-> t + 600 * 1000],
                   key, iv)

\* An invocation starts a store mutation: const config = readConfig().
ReadConfig(p, op) ==
  /\ writers[p].pc \in {"idle", "done"}
  /\ Len(saves) < MaxSaves
  /\ writers' = [writers EXCEPT ![p] = [pc |-> "read", op |-> op, config |-> store]]
  /\ UNCHANGED <<loginSide, diskVars, invocationVars, expiryCheck, cryptoCheck, tokenCheck,
                 replaceCheck>>

\* The invocation goes on: the profile is assigned (saveOAuth2Tokens throws when
\* the document it read has no such profile) and writeConfig(config) is called.
WriteConfig(p, fresh, iv) ==
  /\ writers[p].pc = "read"
  /\ Len(saves) < MaxSaves
  /\ writers' = [writers EXCEPT ![p].pc = "done"]
  /\ LET op == writers[p].op
         config == writers[p].config
     IN  IF op.kind = "saveOAuth2Tokens" /\ GetProfile(config, op.name) = NoProfile
         THEN /\ saves' = Append(saves, "not_found")
              /\ UNCHANGED <<store, keyFile>>
         ELSE /\ saves' = Append(saves, "saved")
              /\ keyFile' = IF op.kind = "saveProfile" THEN keyFile
                            ELSE GetEncryptionKey(keyFile, fresh)
              /\ store' = WrittenConfig(store, ChangedConfig(config, op, keyFile', iv, now),
                                        op.name)
  /\ UNCHANGED <<loginSide, now, invocationVars, expiryCheck, cryptoCheck, tokenCheck,
                 replaceCheck>>

RaceNext ==
  \/ \E p \in Processes, op \in RaceOps : ReadConfig(p, op)
  \/ \E p \in Processes, fresh \in Keys, iv \in IVs : WriteConfig(p, fresh, iv)

RaceSpec == Init /\ [][RaceNext]_vars


\* ------------------------------------- configure again after a login
\* The store after `configure` (saveOAuth2Profile) and `login`
\* (saveOAuth2Tokens, ten minutes of validity) on one profile.
LoggedInStore(name, key, iv) ==
  SavedTokens([n \in ProfileNames |->
                 IF n = name THEN OAuth2Profile(Encrypt(Plain("cs1"), key, iv))
                 ELSE NoProfile],
              name,
              [accessToken |-> "at1", refreshToken |-> Plain("rt1"),
               tokenExpiry |-> ClockStartMs + 600 * 1000],
              key, iv)

\* One delegated profile has been configured and logged in; no invocation runs.
ReconfigureInit ==
  /\ LoginInit
  /\ writers = [p \in Processes |-> IdleWriter]
  /\ keyFile \in Keys
  /\ \E name \in ProfileNames, iv \in IVs : store = LoggedInStore(name, keyFile, iv)
  /\ now = ClockStartMs
  /\ saves = <<>>
  /\ qpc = "idle"
  /\ qargs = NoArgs
  /\ env = EnvNoneSet
  /\ resolved = NoCredentials
  /\ refreshRequests = <<>>
  /\ refreshResponse = NoRefreshResponse
  /\ apiCalls = <<>>
  /\ events = <<>>
  /\ report = NoReport
  /\ expiryCheck = NoExpiryCheck
  /\ cryptoCheck = NoCryptoCheck
  /\ tokenCheck = NoTokenCheck
  /\ replaceCheck = NoReplaceCheck

\* `configure` is run again, then one query invocation.
ReconfigureNext ==
  \/ \E name \in ProfileNames, answers \in OAuth2Answers, fresh \in Keys, iv \in IVs :
       ConfigureOAuth2(name, answers, fresh, iv)
  \/ ClockTick
  \/ \E query \in Queries, name \in ProfileNames, dryRun \in BOOLEAN,
        format \in Formats, e \in EnvConfigs :
       ExecuteQuery(query, name, dryRun, format, e)
  \/ \E at \in NewAccessTokens, rt \in NewRefreshTokens, expiresIn \in ExpiresIns,
        iv \in IVs :
       RefreshSucceeds(at, rt, expiresIn, iv)
  \/ RefreshFails
  \/ \E ok \in BOOLEAN : QueryResponse(ok)

ReconfigureSpec == ReconfigureInit /\ [][ReconfigureNext]_vars


\* ---------------------------------------------- replacePlaceholders on its own
\* Strings are sequences of characters.
QueryChars == {":", "a", "b", " "}
ParamKeys == {<<"a">>, <<"a", "b">>}
Digits == {"7"}

\* A parameter value: a JavaScript number or a string, with String(value).
NumberValue(text) == [type |-> "number", text |-> text]
StringValue(text) == [type |-> "string", text |-> text]
ParamValues ==
  {NumberValue(<<"7">>), StringValue(<<"7">>), StringValue(<<"t", "r", "u", "e">>),
   StringValue(<<"x">>), StringValue(<<"'">>), StringValue(<<":", "a">>),
   StringValue(<<"$">>)}

\* The strings over a set of characters, up to a length.
StringsUpTo(chars, n) == UNION {[1..k -> chars] : k \in 0..n}

\* Object.entries(params): the entries in insertion order, each key once.
ParamLists ==
  {<<>>}
  \cup {<<[key |-> k, value |-> v]>> : k \in ParamKeys, v \in ParamValues}
  \cup {<<[key |-> ks[1], value |-> v1], [key |-> ks[2], value |-> v2]>> :
          ks \in {kk \in ParamKeys \X ParamKeys : kk[1] # kk[2]},
          v1 \in ParamValues, v2 \in ParamValues}

\* /^\d+$/
IsDigits(t) == Len(t) > 0 /\ \A i \in 1..Len(t) : t[i] \in Digits

\* /^-?\d+(\.\d+)?$/.test(stringValue)
IsNumeric(t) ==
  LET u == IF Len(t) > 0 /\ t[1] = "-" THEN Tail(t) ELSE t
  IN  \/ IsDigits(u)
      \/ \E k \in 1..Len(u) :
            u[k] = "." /\ IsDigits(SubSeq(u, 1, k - 1)) /\ IsDigits(SubSeq(u, k + 1, Len(u)))

\* stringValue.replace(/'/g, "''")
RECURSIVE DoubleQuotes(_)
DoubleQuotes(t) ==
  IF t = <<>> THEN <<>>
  ELSE (IF Head(t) = "'" THEN <<"'", "'">> ELSE <<Head(t)>>) \o DoubleQuotes(Tail(t))

\* replacement: the value as it is for a number, a numeric string, 'true' and
\* 'false'; otherwise in single quotes with its own quotes doubled.
Replacement(value) ==
  IF value.type = "number" \/ IsNumeric(value.text) THEN value.text
  ELSE IF value.text \in {<<"t", "r", "u", "e">>, <<"f", "a", "l", "s", "e">>} THEN value.text
  ELSE <<"'">> \o DoubleQuotes(value.text) \o <<"'">>

\* What String.prototype.replace inserts for a replacement string: $$ is a
\* dollar sign, $& the matched text, $` the text before the match, $' the
\* text after it; every other character stands for itself.
RECURSIVE Expand(_, _, _, _)
Expand(repl, matched, before, after) ==
  IF repl = <<>> THEN <<>>
  ELSE IF Head(repl) = "$" /\ Len(repl) >= 2 /\ repl[2] \in {"$", "&", "`", "'"}
  THEN (CASE repl[2] = "$" -> <<"$">>
          [] repl[2] = "&" -> matched
          [] repl[2] = "`" -> before
          [] repl[2] = "'" -> after)
       \o Expand(Tail(Tail(repl)), matched, before, after)
  ELSE <<Head(repl)>> \o Expand(Tail(repl), matched, before, after)

\* pattern occurs in s at position i.
MatchesAt(s, i, pattern) ==
  /\ i + Len(pattern) - 1 <= Len(s)
  /\ SubSeq(s, i, i + Len(pattern) - 1) = pattern

\* s.replace(new RegExp(<pattern, escaped>, 'g'), repl) from position i on:
\* the matches are found from left to right in s and do not overlap.
RECURSIVE ReplaceFrom(_, _, _, _)
ReplaceFrom(s, i, pattern, repl) ==
  IF i > Len(s) THEN <<>>
  ELSE IF MatchesAt(s, i, pattern)
  THEN Expand(repl, pattern, SubSeq(s, 1, i - 1), SubSeq(s, i + Len(pattern), Len(s)))
       \o ReplaceFrom(s, i + Len(pattern), pattern, repl)
  ELSE <<s[i]>> \o ReplaceFrom(s, i + 1, pattern, repl)

\* placeholder = `:${key}`
Placeholder(key) == <<":">> \o key

\* replacePlaceholders(query, params): the entries are taken one after the
\* other, each replacing its placeholder in the result of the one before.
RECURSIVE ReplacePlaceholders(_, _)
ReplacePlaceholders(query, params) ==
  IF params = <<>> THEN query
  ELSE ReplacePlaceholders(
         ReplaceFrom(query, 1, Placeholder(Head(params).key), Replacement(Head(params).value)),
         Tail(params))

ReplaceInit ==
  /\ LoginInit
  /\ QueryInit
  /\ expiryCheck = NoExpiryCheck
  /\ cryptoCheck = NoCryptoCheck
  /\ tokenCheck = NoTokenCheck
  /\ \E query \in StringsUpTo(QueryChars, MaxQueryLen), params \in ParamLists :
       replaceCheck = [query |-> query, params |-> params, done |-> FALSE, result |-> <<>>]

\* replacePlaceholders(query, params) is called.
CallReplacePlaceholders ==
  /\ ~replaceCheck.done
  /\ replaceCheck' = [replaceCheck EXCEPT
                        !.done = TRUE,
                        !.result = ReplacePlaceholders(replaceCheck.query, replaceCheck.params)]
  /\ UNCHANGED <<loginSide, diskVars, invocationVars, expiryCheck, cryptoCheck, tokenCheck,
                 writers>>

PlaceholderSpec == ReplaceInit /\ [][CallReplacePlaceholders]_vars


\* ==================================================================== claims
\* The step is the request handler answering req.
RequestHandled(req) == conns' = conns - 1 /\ HandleRequest(req)

\* C1: whenever the callback promise resolved with a state different from the
\* token login generated (a null state included), the token endpoint is never
\* called, and a login that received that resolution failed with the
\* state-mismatch error.
C1_StateMismatchRejected ==
  (callbackPromise.status = "resolved" /\ callbackPromise.state # state) =>
    /\ tokenRequest = NoTokenRequest
    /\ pc # "exchanging"
    /\ result.kind # "tokens"
    /\ (pc = "done" /\ browser = "opened" =>
          result = [kind |-> "error", error |-> StateMismatchError])

C1_Witness ==
  /\ pc = "done"
  /\ callbackPromise.status = "resolved"
  /\ callbackPromise.code \in Codes
  /\ callbackPromise.state = NoParam
  /\ result.error = StateMismatchError

\* C2 (as claimed): when the login attempt has ended, the callback server is
\* no longer listening.
C2_ClosedWhenLoginEnds == pc = "done" => server # "listening"

\* C3: once the callback promise is settled, no step (request, timer, 'error'
\* event) changes it.
C3_SingleOutcome ==
  [][callbackPromise.status # "pending" => callbackPromise' = callbackPromise]_vars

C3_Witness ==
  /\ responses = <<400, 200>>
  /\ callbackPromise = Rejected(NoCodeError)

\* C4: a callback-path request with a code and no error, handled while the
\* server listens, is answered 200, closes the server, and resolves a pending
\* promise with that request's code and state.
C4_CodeResolves ==
  [][\A req \in Requests :
       (/\ req.path = CALLBACK_PATH
        /\ req.code \in Codes
        /\ req.error \notin ProviderErrors
        /\ server = "listening"
        /\ RequestHandled(req))
       => /\ responses' = Append(responses, 200)
          /\ server' = "closed"
          /\ (callbackPromise = Pending
                => callbackPromise' = Resolved(req.code, req.state))]_vars

C4_Witness ==
  /\ responses = <<200>>
  /\ server = "closed"
  /\ callbackPromise = Resolved("c2", "s1")

\* C5: a callback-path request with an error parameter, handled while the
\* server listens, is answered 200, closes the server, and rejects a pending
\* promise with a denial error carrying the provider's error code.
C5_ErrorDenies ==
  [][\A req \in Requests :
       (/\ req.path = CALLBACK_PATH
        /\ req.error \in ProviderErrors
        /\ server = "listening"
        /\ RequestHandled(req))
       => /\ responses' = Append(responses, 200)
          /\ server' = "closed"
          /\ (callbackPromise = Pending
                => /\ callbackPromise'.status = "rejected"
                   /\ callbackPromise'.error.kind = "authorization_denied"
                   /\ callbackPromise'.error.detail = req.error)]_vars

C5_Witness ==
  /\ responses = <<200>>
  /\ server = "closed"
  /\ callbackPromise.status = "rejected"
  /\ callbackPromise.error.kind = "authorization_denied"
  /\ callbackPromise.error.detail = "access_denied"

\* C6: a callback-path request with neither an error nor a code, handled while
\* the server listens, is answered 400, closes the server, and rejects a
\* pending promise with the 'no authorization code received' error.
C6_NoCodeRejects ==
  [][\A req \in Requests :
       (/\ req.path = CALLBACK_PATH
        /\ req.error \notin ProviderErrors
        /\ req.code \notin Codes
        /\ server = "listening"
        /\ RequestHandled(req))
       => /\ responses' = Append(responses, 400)
          /\ server' = "closed"
          /\ (callbackPromise = Pending
                => /\ callbackPromise'.status = "rejected"
                   /\ callbackPromise'.error.kind = "no_code")]_vars

C6_Witness ==
  /\ responses = <<400>>
  /\ server = "closed"
  /\ callbackPromise.status = "rejected"
  /\ callbackPromise.error.kind = "no_code"

\* C7: a request to another path is answered 404 and leaves the server, its
\* timer and its promise as they were, so a later callback still resolves.
C7_OtherPath404 ==
  [][\A req \in Requests :
       (req.path # CALLBACK_PATH /\ RequestHandled(req))
       => /\ responses' = Append(responses, 404)
          /\ server' = server
          /\ timeoutId' = timeoutId
          /\ callbackPromise' = callbackPromise]_vars

C7_Witness ==
  /\ responses = <<404, 404, 200>>
  /\ server = "closed"
  /\ callbackPromise.status = "resolved"

\* C8 (as claimed): once the 2 minutes have passed on a bound server without a
\* callback-path request, the server is closed and the promise is rejected with
\* the timeout error (the instant before the expired timer runs excepted).
C8_TimeoutCloses ==
  (/\ server \in {"listening", "closed"}
   /\ elapsedMs >= CALLBACK_TIMEOUT_MS
   /\ timeoutId # "armed"
   /\ \A i \in 1..Len(responses) : responses[i] = 404)
  => /\ server = "closed"
     /\ callbackPromise = Rejected(TimeoutError)

\* C9: the server never binds another port than the requested one; when the
\* bind fails the promise is rejected with an error naming port and cause, no
\* code exchange is sent and login ends in failure.
C9_BindFailure ==
  /\ boundPort \in {NoPort, port}
  /\ server = "failed" =>
       /\ callbackPromise.status = "rejected"
       /\ callbackPromise.error.kind = "start_failed"
       /\ callbackPromise.error.port = port
       /\ callbackPromise.error.detail \in BindCauses
       /\ boundPort = NoPort
       /\ tokenRequest = NoTokenRequest
       /\ (pc = "done" => result.kind = "error")

C9_Witness ==
  /\ server = "failed"
  /\ pc = "done"
  /\ result.error = StartFailedError(port, "EADDRINUSE")

\* C10 (as claimed): a failed browser open does not end the attempt with the
\* browser's error; login goes on to wait for the callback.
C10_OpenFailureNotFatal ==
  browser = "failed" => (pc # "done" \/ result.error # OpenError)

\* The query invocation went down executeOAuth2Query with a profile that has
\* both tokens: it was not a dry run, its arguments were valid, and the
\* resolved credentials are a delegated profile with both tokens.
DelegatedWithTokens ==
  /\ qpc # "idle"
  /\ Truthy(qargs.query) /\ ~qargs.dryRun /\ ValidFormat(qargs.format)
  /\ resolved.authType = "oauth2"
  /\ Truthy(resolved.credentials.accessToken)
  /\ TruthySecret(resolved.credentials.refreshToken)

\* The step is executeQuery running up to its first await.
QueryStarts == qpc = "idle" /\ qpc' # "idle"

\* C11: when a query runs with a delegated profile that has an access token
\* and a refresh token, a refresh request is sent exactly if isTokenExpired is
\* true for the resolved credentials at that time; the request carries the
\* plaintext of the refresh token that is stored encrypted in the profile; and
\* no invocation sends more than one refresh request.
C11_RefreshIffExpired ==
  /\ [](Len(refreshRequests) <= 1)
  /\ [][QueryStarts /\ DelegatedWithTokens' =>
          /\ (refreshRequests' # refreshRequests) <=> IsTokenExpired(resolved'.credentials, now)
          /\ refreshRequests' # refreshRequests =>
               /\ store[qargs'.profileName].refreshToken.form = "cipher"
               /\ refreshRequests'[1].refreshToken =
                    Plain(store[qargs'.profileName].refreshToken.text)
          /\ refreshRequests' = refreshRequests => apiCalls' # apiCalls]_vars

\* A refresh request was sent for a delegated profile with both tokens.
C11_Witness == DelegatedWithTokens /\ Len(refreshRequests) = 1 /\ qpc = "refreshing"

\* The refresh of the invocation succeeded and its tokens were saved.
RefreshSaved ==
  /\ refreshResponse.status = "ok"
  /\ "save" \in {events[i] : i \in DOMAIN events}

\* C12: when the refresh succeeds, the new tokens are written to the store
\* before the remote query API is called (no call goes out while the refresh
\* is pending), and the call carries the access token the refresh issued, which
\* is also the one now stored.
C12_SaveBeforeCall ==
  /\ qpc = "refreshing" => apiCalls = <<>>
  /\ refreshResponse.status = "ok" /\ apiCalls # <<>> =>
       /\ events = <<"refresh", "save", "api">>
       /\ Len(apiCalls) = 1
       /\ apiCalls[1] = BearerCall(refreshResponse.accessToken)
       /\ store[qargs.profileName].accessToken = refreshResponse.accessToken

\* The query was sent after a successful refresh.
C12_Witness == RefreshSaved /\ Len(apiCalls) = 1 /\ qpc = "querying"

\* C13: after a successful refresh the stored refresh token decrypts to the
\* one in the response if the response had one, and otherwise to the one that
\* was stored before (the one the invocation resolved); it is never empty.
C13_RefreshTokenKept ==
  RefreshSaved =>
    /\ TruthySecret(store[qargs.profileName].refreshToken)
    /\ store[qargs.profileName].refreshToken.form = "cipher"
    /\ Decrypt(store[qargs.profileName].refreshToken, keyFile) =
         IF refreshResponse.refreshToken # NoSecret
         THEN refreshResponse.refreshToken
         ELSE resolved.credentials.refreshToken

\* A successful refresh whose response had no refresh token.
C13_Witness == RefreshSaved /\ refreshResponse.refreshToken = NoSecret

\* The step is the refresh of the invocation failing.
RefreshFailed == qpc = "refreshing" /\ refreshResponse'.status = "failed"

\* C14: if the refresh fails, the invocation prints the re-authenticate
\* instruction and exits with code 1; it sends no second refresh request and
\* no API call (the old access token is not used), and the stored tokens of
\* the profile stay as they were.
C14_RefreshFailureEnds ==
  /\ [](refreshResponse.status = "failed" =>
          /\ qpc = "done"
          /\ report = Exit1("refresh_failed")
          /\ Len(refreshRequests) = 1
          /\ apiCalls = <<>>)
  /\ [][RefreshFailed =>
          /\ store' = store
          /\ refreshRequests' = refreshRequests
          /\ apiCalls' = apiCalls]_vars

\* A refresh failed.
C14_Witness == refreshResponse.status = "failed" /\ report.kind = "refresh_failed"

\* C15 as stated: isTokenExpired is true exactly when the profile has no
\* access token, has no expiry, or its expiry is less than 5 minutes
\* (300000 ms) after the current time.
C15_ExpiredLessThanBuffer ==
  expiryCheck.checked =>
    (expiryCheck.result <=>
       \/ ~Truthy(expiryCheck.accessToken)
       \/ expiryCheck.tokenExpiry = NoExpiry
       \/ expiryCheck.tokenExpiry < expiryCheck.now + TOKEN_EXPIRY_BUFFER_MS)

\* C15: isTokenExpired is true exactly when the profile has no access token,
\* has no expiry, or its expiry is at most 5 minutes (300000 ms) after the
\* current time: a token that expires in exactly 5 minutes counts as expired.
C15_ExpiredWithinBuffer ==
  expiryCheck.checked =>
    (expiryCheck.result <=>
       \/ ~Truthy(expiryCheck.accessToken)
       \/ expiryCheck.tokenExpiry = NoExpiry
       \/ expiryCheck.tokenExpiry <= expiryCheck.now + TOKEN_EXPIRY_BUFFER_MS)

\* isTokenExpired was called for a token that expires in exactly 5 minutes.
C15_Witness ==
  /\ expiryCheck.checked
  /\ Truthy(expiryCheck.accessToken)
  /\ expiryCheck.tokenExpiry = expiryCheck.now + TOKEN_EXPIRY_BUFFER_MS
  /\ expiryCheck.result

\* All five NSQL_* variables of e are set and non-empty.
AllFiveSet(e) == \A f \in EnvFields : e[f] # NoParam /\ e[f] # ""

\* The step is executeQuery calling resolveCredentials (the query argument
\* passed the check that precedes it).
Resolves == QueryStarts /\ qargs'.query \notin {NoParam, ""}

\* An invocation has called resolveCredentials.
HasResolved == qpc # "idle" /\ qargs.query \notin {NoParam, ""}

\* C16: resolveCredentials returns the environment's record, with source
\* 'environment', exactly when all five NSQL_* variables are set and
\* non-empty, whatever the profile name and the store; otherwise nothing of the
\* environment is in the result, and a stored profile of that name is returned
\* with source 'profile'.
C16_EnvironmentFirst ==
  [][Resolves =>
       /\ (resolved'.source = "environment") <=> AllFiveSet(env')
       /\ AllFiveSet(env') =>
            /\ resolved'.credentials = EnvCreds(env')
            /\ resolved'.authType = "oauth1"
       /\ ~AllFiveSet(env') /\ store[qargs'.profileName] # NoProfile =>
            /\ resolved'.source = "profile"
            /\ \A f \in {"authType", "consumerKey", "accessToken", "tokenExpiry"} :
                 resolved'.credentials[f] = store[qargs'.profileName][f]]_vars

\* The environment won over a stored profile of the requested name.
C16_Witness ==
  /\ HasResolved
  /\ resolved.source = "environment"
  /\ store[qargs.profileName] # NoProfile

\* The environment is incomplete and the named profile is not in the store.
NothingToResolve ==
  /\ HasResolved
  /\ ~AllFiveSet(env)
  /\ store[qargs.profileName] = NoProfile

\* C17 as stated: when the environment is incomplete and the named profile is
\* absent, the resolver's result is 'no credentials' and the list of the other
\* configured profile names comes with it (in the result itself, or in what
\* the invocation reports from it).
C17_ResultCarriesProfiles ==
  NothingToResolve =>
    /\ resolved.credentials = NoProfile
    /\ \/ "availableProfiles" \in DOMAIN resolved
       \/ report.profiles = {n \in ProfileNames : store[n] # NoProfile}

\* C17: when the environment is incomplete and the named profile is absent,
\* the resolver's result is 'no credentials' (credentials, source and authType
\* all null, and nothing else); a query that is not a dry run then reports the
\* names of the configured profiles and exits with code 1 without calling the
\* API, and a dry run reports no list.
C17_NoCredentialsListed ==
  NothingToResolve =>
    /\ resolved = NoCredentials
    /\ DOMAIN resolved = {"credentials", "source", "authType"}
    /\ apiCalls = <<>> /\ refreshRequests = <<>>
    /\ qpc = "done"
    /\ ~qargs.dryRun =>
         /\ report.kind = "no_credentials" /\ report.exited /\ report.exitCode = 1
         /\ report.profiles = {n \in ProfileNames : store[n] # NoProfile}
    /\ qargs.dryRun => report = DryRunReport

\* A query found no credentials and listed another profile.
C17_Witness == NothingToResolve /\ ~qargs.dryRun /\ report.profiles # {}

\* C18: for a stored delegated profile (and an incomplete environment),
\* resolveCredentials returns the stored record with clientSecret and
\* refreshToken replaced by the plaintexts that were saved, source 'profile'
\* and authType 'oauth2'; the result does not depend on the clock or the
\* token's expiry, and resolving alone (a dry run) sends no refresh request.
C18_DelegatedProfileDecrypted ==
  [][Resolves /\ ~AllFiveSet(env') /\ store[qargs'.profileName] # NoProfile
       /\ store[qargs'.profileName].authType = "oauth2" =>
       /\ resolved'.source = "profile"
       /\ resolved'.authType = "oauth2"
       /\ store[qargs'.profileName].clientSecret.form = "cipher"
       /\ resolved'.credentials =
            [store[qargs'.profileName] EXCEPT
               !.clientSecret = Plain(@.text),
               !.refreshToken = IF @.form = "cipher" THEN Plain(@.text) ELSE NoSecret]
       /\ qargs'.dryRun => refreshRequests' = <<>> /\ qpc' = "done"]_vars

\* A dry run resolved a delegated profile whose token is past its expiry.
C18_Witness ==
  /\ HasResolved /\ qargs.dryRun
  /\ resolved.authType = "oauth2"
  /\ resolved.credentials.refreshToken.form = "plain"
  /\ resolved.credentials.tokenExpiry <= now

\* C19: no step of a query invocation changes the store, except the one in
\* which a refresh has succeeded, and that one changes nothing but the three
\* token fields of the invocation's profile. In particular the step that calls
\* resolveCredentials leaves the store as it was.
C19_OnlyRefreshWrites ==
  [][qpc' # "idle" /\ store' # store =>
       /\ qpc = "refreshing"
       /\ refreshResponse'.status = "ok"
       /\ \A n \in ProfileNames \ {qargs.profileName} : store'[n] = store[n]
       /\ \A f \in {"authType", "consumerKey", "clientSecret"} :
            store'[qargs.profileName][f] = store[qargs.profileName][f]]_vars

\* The invocation ended after its refresh wrote the new access token.
C19_Witness ==
  /\ RefreshSaved /\ qpc = "done"
  /\ store[qargs.profileName].accessToken = refreshResponse.accessToken
  /\ store[qargs.profileName].accessToken # resolved.credentials.accessToken

\* The named profile is a delegated one without tokens, and the environment
\* does not take precedence.
NotLoggedIn ==
  /\ HasResolved
  /\ ~AllFiveSet(env)
  /\ store[qargs.profileName] # NoProfile
  /\ store[qargs.profileName].authType = "oauth2"
  /\ TokenFields(store[qargs.profileName]) = TokenFields(OAuth2Profile(NoSecret))

\* C20: a delegated profile without tokens resolves (source 'profile',
\* credentials present); a query against it sends no refresh request and no
\* API call, and, when it is not a dry run and the format is valid, tells the
\* user to run login for the profile and exits with code 1.
C20_NoTokensNeedsLogin ==
  NotLoggedIn =>
    /\ resolved.source = "profile"
    /\ resolved.authType = "oauth2"
    /\ resolved.credentials # NoProfile
    /\ refreshRequests = <<>>
    /\ apiCalls = <<>>
    /\ ~qargs.dryRun /\ ValidFormat(qargs.format) =>
         qpc = "done" /\ report = Exit1("no_tokens")

\* A query against a delegated profile without tokens asked for a login.
C20_Witness == NotLoggedIn /\ report.kind = "no_tokens"

\* The profiles of the store that are delegated (authType 'oauth2').
DelegatedProfiles ==
  {n \in ProfileNames : store[n] # NoProfile /\ store[n].authType = "oauth2"}

\* C21: after any sequence of saveOAuth2Profile and saveOAuth2Tokens calls,
\* every delegated profile holds its clientSecret, and its refreshToken if it
\* has one, as an iv:ciphertext value that differs from the plaintext; and a
\* saveOAuth2Tokens call stores the accessToken and the tokenExpiry it was
\* given as they are, and the refreshToken as the ciphertext of the one given.
C21_SecretsStoredEncrypted ==
  /\ [](\A n \in DelegatedProfiles :
          /\ store[n].clientSecret.form = "cipher"
          /\ store[n].clientSecret # Plain(store[n].clientSecret.text)
          /\ store[n].refreshToken # NoSecret =>
               /\ store[n].refreshToken.form = "cipher"
               /\ store[n].refreshToken # Plain(store[n].refreshToken.text))
  /\ [][\A name \in ProfileNames, at \in AccessTokens, rt \in RefreshTokens,
           expiresIn \in ExpiresIns, fresh \in Keys, iv \in IVs :
          store[name] # NoProfile
          /\ SaveOAuth2Tokens(name, at, Plain(rt), expiresIn, fresh, iv) =>
            /\ store'[name].accessToken = at
            /\ store'[name].tokenExpiry = now + expiresIn * 1000
            /\ store'[name].refreshToken.form = "cipher"
            /\ store'[name].refreshToken.text = rt]_vars

\* A delegated profile holds tokens.
C21_Witness ==
  \E n \in DelegatedProfiles :
    store[n].refreshToken.form = "cipher" /\ store[n].accessToken \in AccessTokens

\* C22: saveOAuth2Tokens for a profile name that is not in the store fails
\* with the 'not found' error and leaves the store as it was: no profile is
\* created, no other profile is changed, and no key file is written.
C22_TokensNeedProfile ==
  [][\A name \in ProfileNames, at \in AccessTokens, rt \in RefreshTokens,
        expiresIn \in ExpiresIns, fresh \in Keys, iv \in IVs :
       store[name] = NoProfile
       /\ SaveOAuth2Tokens(name, at, Plain(rt), expiresIn, fresh, iv) =>
         /\ saves' = Append(saves, "not_found")
         /\ store' = store
         /\ keyFile' = keyFile]_vars

\* Tokens were offered for a missing profile while another profile existed.
C22_Witness ==
  /\ saves # <<>>
  /\ saves[Len(saves)] = "not_found"
  /\ \E n \in ProfileNames : store[n] # NoProfile

C24_Passthrough ==
  /\ cryptoCheck.text \in {NoSecret, Plain("")} =>
       cryptoCheck.encrypted = cryptoCheck.text
  /\ cryptoCheck.op = "decrypt" /\ cryptoCheck.input \in {NoSecret, Plain(""), Plain("x")} =>
       /\ cryptoCheck.decrypted = cryptoCheck.input
       /\ cryptoCheck.decrypted # DecryptError

\* decrypt was given a text without ':' after encrypt was given an empty one.
C24_Witness ==
  /\ cryptoCheck.op = "decrypt"
  /\ cryptoCheck.calls >= 2
  /\ cryptoCheck.text = Plain("")
  /\ cryptoCheck.input = Plain("x")
  /\ cryptoCheck.decrypted = Plain("x")

\* The stored values that are ciphertexts.
StoredCiphers ==
  {store[n][f] : n \in {m \in ProfileNames : store[m] # NoProfile},
                 f \in {"clientSecret", "refreshToken"}} \cap
  {Cipher(t, k, iv) : t \in {"cs1", "rt1", "rt2", "at1"}, k \in Keys, iv \in IVs}

\* Every ciphertext made so far, stored or returned by encrypt, is under the
\* key of the key file and decrypts to its plaintext.
AllUnderMachineKey ==
  /\ \A c \in StoredCiphers : c.key = keyFile /\ Decrypt(c, keyFile) = Plain(c.text)
  /\ cryptoCheck.encrypted.form = "cipher" =>
       /\ cryptoCheck.encrypted.key = keyFile
       /\ Decrypt(cryptoCheck.encrypted, keyFile) = cryptoCheck.text

\* This step encrypts a non-empty value: an encrypt call, or a save that
\* stores a ciphertext.
EncryptionStep ==
  \/ /\ cryptoCheck'.calls > cryptoCheck.calls
     /\ cryptoCheck'.op = "encrypt"
     /\ cryptoCheck'.encrypted.form = "cipher"
  \/ /\ store' # store
     /\ StoredCiphers' # {}

\* This step is a decrypt call on a value that has the iv: separator.
DecryptionStep ==
  /\ cryptoCheck'.calls > cryptoCheck.calls
  /\ cryptoCheck'.op = "decrypt"
  /\ cryptoCheck'.input.form = "cipher" \/ cryptoCheck'.input.text \in SeparatorTexts

\* C25 as stated: the machine key is generated once, at the first encryption,
\* and no encrypt, decrypt, save or resolve operation regenerates or modifies
\* it afterwards; all encrypted fields are under that key and stay
\* decryptable.
C25_KeyFromFirstEncryption ==
  /\ AllUnderMachineKey
  /\ [][/\ AllUnderMachineKey'
        /\ keyFile # NoKey => keyFile' = keyFile
        /\ keyFile = NoKey /\ keyFile' # NoKey => EncryptionStep]_vars

\* C25: the machine key is generated once, by the first operation that needs
\* it (the encryption of a non-empty value, or the decryption of a value that
\* has the iv: separator while there is no key file), and no encrypt,
\* decrypt, save or resolve operation regenerates or modifies it afterwards;
\* all encrypted fields are under that key and stay decryptable.
C25_KeyFromFirstUse ==
  /\ AllUnderMachineKey
  /\ [][/\ AllUnderMachineKey'
        /\ keyFile # NoKey => keyFile' = keyFile
        /\ keyFile = NoKey /\ keyFile' # NoKey => EncryptionStep \/ DecryptionStep]_vars

\* A profile's secret and refresh token were stored, encrypt was called on
\* its own, and the profile was resolved with its secret decrypted.
C25_Witness ==
  /\ keyFile # NoKey
  /\ \E n \in ProfileNames :
       /\ store[n] # NoProfile
       /\ store[n].clientSecret.form = "cipher"
       /\ store[n].refreshToken.form = "cipher"
       /\ store[n].refreshToken.key = store[n].clientSecret.key
  /\ cryptoCheck.encrypted.form = "cipher"
  /\ cryptoCheck.op = "decrypt"
  /\ resolved.source = "profile"
  /\ resolved.authType = "oauth2"
  /\ resolved.credentials.clientSecret = Plain("cs1")

\* C26: a code exchange or a refresh that receives a non-2xx response fails
\* with an error that carries the HTTP status and the detail from the body
\* (error_description, else error, else the raw body text) and returns no
\* tokens; only a 2xx response yields the record {accessToken, refreshToken,
\* expiresIn, tokenType}.
C26_NonOkFails ==
  tokenCheck.handled =>
    /\ tokenCheck.status \notin 200..299 =>
         /\ tokenCheck.outcome.kind = "error"
         /\ tokenCheck.outcome.what = IF tokenCheck.grant = "refresh_token"
                                      THEN "Token refresh failed"
                                      ELSE "Token exchange failed"
         /\ tokenCheck.outcome.status = tokenCheck.status
         /\ tokenCheck.outcome.detail =
              IF tokenCheck.body.error_description \notin {NoParam, ""}
              THEN tokenCheck.body.error_description
              ELSE IF tokenCheck.body.error \notin {NoParam, ""}
              THEN tokenCheck.body.error
              ELSE tokenCheck.body.raw
         /\ tokenCheck.outcome.tokens = NoTokens
    /\ tokenCheck.outcome.kind = "tokens" =>
         /\ tokenCheck.status \in 200..299
         /\ DOMAIN tokenCheck.outcome.tokens =
              {"accessToken", "refreshToken", "expiresIn", "tokenType"}
         /\ tokenCheck.outcome.tokens.accessToken = tokenCheck.body.access_token

\* A refresh was answered 401 with a body that has an error and an empty
\* error_description, and failed with the error as detail.
C26_Witness ==
  /\ tokenCheck.handled
  /\ tokenCheck.grant = "refresh_token"
  /\ tokenCheck.status = 401
  /\ tokenCheck.body.error_description = ""
  /\ tokenCheck.outcome.kind = "error"
  /\ tokenCheck.outcome.detail = "invalid_client"

\* The URI on which the attempt's callback server accepts the redirect.
ListenerUri == [scheme |-> "http", host |-> ListenHost, port |-> boundPort, path |-> CALLBACK_PATH]

\* C27: in every login attempt the redirect URI is the same in the
\* authorization URL and in the code-exchange request, and it is exactly the
\* address, port and path on which the attempt's callback server accepts the
\* redirect: http://127.0.0.1:<port>/callback.
C27_RedirectToListener ==
  /\ tokenRequest # NoTokenRequest => tokenRequest.redirect_uri = authUrl.redirect_uri
  /\ pc # "idle" /\ server = "listening" => authUrl.redirect_uri = ListenerUri

\* C28: every login attempt generates its own PKCE pair: the code_challenge
\* of its authorization URL is derived from exactly the code_verifier the
\* attempt later sends in its code exchange, no two attempts share a verifier
\* or a challenge, and login never writes the pair (or anything) to the store.
C28_OwnPKCEPair ==
  /\ [](/\ pc # "idle" =>
             /\ pkce.codeVerifier # NoVerifier
             /\ authUrl.code_challenge = CodeChallenge(pkce.codeVerifier)
             /\ authUrl.code_challenge_method = "S256"
             /\ \A i \in DOMAIN attempts :
                  /\ attempts[i].codeVerifier # pkce.codeVerifier
                  /\ attempts[i].codeChallenge # authUrl.code_challenge
        /\ tokenRequest # NoTokenRequest =>
             /\ tokenRequest.code_verifier # NoVerifier
             /\ authUrl.code_challenge = CodeChallenge(tokenRequest.code_verifier)
        /\ \A i, j \in DOMAIN attempts :
             i # j => /\ attempts[i].codeVerifier # attempts[j].codeVerifier
                      /\ attempts[i].codeChallenge # attempts[j].codeChallenge
        /\ DOMAIN result = {"kind", "error"})
  /\ [][store' = store /\ keyFile' = keyFile]_vars

\* A second attempt sends its code exchange after the first one sent its own.
C28_Witness ==
  /\ Len(attempts) = 1
  /\ attempts[1].sentVerifier = attempts[1].codeVerifier
  /\ tokenRequest # NoTokenRequest
  /\ tokenRequest.code_verifier = pkce.codeVerifier
  /\ tokenRequest.code_verifier # attempts[1].sentVerifier

\* The profiles of the store that are legacy ones (no authType 'oauth2').
LegacyProfiles ==
  {n \in ProfileNames : store[n] # NoProfile /\ store[n].authType # "oauth2"}

\* An answer that is absent, empty, white space only or not a string.
BadAnswer(v) == v \in {NoParam, "", Blank, NonString}

\* C29: after any sequence of save operations every legacy profile in the
\* store has all five fields present, non-empty and string-typed; this is
\* enforced when the profile is saved, and a rejected save leaves the store
\* unchanged.
C29_LegacyProfileComplete ==
  /\ [](\A n \in LegacyProfiles : \A f \in LegacyFields :
          store[n][f] \notin {NoParam, "", NonString})
  /\ [][\A name \in ProfileNames, answers \in OAuth1Answers :
          ConfigureOAuth1(name, answers) /\ (\E f \in LegacyFields : BadAnswer(answers[f]))
          => store' = store /\ saves' = Append(saves, "rejected")]_vars

\* A legacy profile was saved, a later configure was rejected, and the profile
\* is still as it was saved.
C29_Witness ==
  /\ saves = <<"saved", "rejected">>
  /\ LegacyProfiles # {}
  /\ \A n \in LegacyProfiles : store[n].token = "v"

\* A dry-run invocation has made no remote API call and sent no refresh, and
\* has not called process.exit with an error status.
DryRunQuiet ==
  /\ apiCalls = <<>>
  /\ refreshRequests = <<>>
  /\ events = <<>>
  /\ qpc = "done"
  /\ ~(report.exited /\ report.exitCode # 0)

\* The dry-run call of executeQuery leaves the store as it is.
DryRunKeepsStore ==
  \A query \in Queries, name \in ProfileNames, format \in Formats, e \in EnvConfigs :
    ExecuteQuery(query, name, TRUE, format, e) => store' = store

StepAt(what) ==
  IF \E i \in DOMAIN steps : steps[i] = what
  THEN CHOOSE i \in DOMAIN steps : steps[i] = what
  ELSE 0

\* C31: in every login attempt the callback server is started before the
\* authorization URL is printed or opened in the browser; the code exchange
\* is sent only when the callback promise has resolved with a code and with
\* the state login generated; and no exchange is sent after a denial, a
\* missing code, a timeout or a bind failure.
C31_ListenThenExchange ==
  /\ StepAt("listen") = 0 => StepAt("print") = 0 /\ StepAt("open") = 0
  /\ StepAt("print") # 0 => StepAt("listen") < StepAt("print")
  /\ StepAt("open") # 0 => StepAt("listen") < StepAt("open") /\ server # "none"
  /\ StepAt("exchange") # 0 <=> tokenRequest # NoTokenRequest
  /\ tokenRequest # NoTokenRequest =>
       /\ StepAt("listen") # 0 /\ StepAt("listen") < StepAt("exchange")
       /\ callbackPromise.status = "resolved"
       /\ callbackPromise.code \in Codes
       /\ callbackPromise.state = state
       /\ tokenRequest.code = callbackPromise.code
  /\ (/\ callbackPromise.status = "rejected"
      /\ callbackPromise.error.kind \in
           {"authorization_denied", "no_code", "timed_out", "start_failed"})
     => tokenRequest = NoTokenRequest /\ result.kind # "tokens"

\* An attempt went through all four steps and got its tokens.
C31_Witness ==
  /\ pc = "done"
  /\ steps = <<"listen", "print", "open", "exchange">>
  /\ result.kind = "tokens"

\* C32: refresh is proactive only: when the remote query API call itself
\* fails, the invocation sends no refresh request, does not call the API
\* again, does not change the stored tokens, and ends with exit status 1.
C32_NoReactiveRefresh ==
  /\ [](qpc = "querying" => Len(apiCalls) = 1 /\ events[Len(events)] = "api")
  /\ [](report.kind = "query_failed" =>
          /\ qpc = "done"
          /\ report.exited /\ report.exitCode = 1
          /\ Len(apiCalls) = 1
          /\ events[Len(events)] = "api")
  /\ [][qpc = "querying" /\ (\E ok \in BOOLEAN : QueryResponse(ok)) /\ report'.kind # "results" =>
          /\ report' = Exit1("query_failed")
          /\ qpc' = "done"
          /\ refreshRequests' = refreshRequests
          /\ apiCalls' = apiCalls
          /\ events' = events
          /\ store' = store]_vars

\* The call made with a stored access token that had not expired failed, and
\* the invocation ended without a refresh.
C32_Witness ==
  /\ qpc = "done"
  /\ report.kind = "query_failed"
  /\ resolved.authType = "oauth2"
  /\ refreshRequests = <<>>
  /\ apiCalls = <<BearerCall("at1")>>
  /\ store[qargs.profileName].accessToken = "at1"

\* C33: every store mutation writes back the whole document it read, with no
\* locking: the write of an invocation sets every other profile to what that
\* invocation read, not to what the file holds at the time of the write. So
\* with two invocations writing concurrently there is an interleaving in
\* which the final document is the last writer's and the other invocation's
\* update, even to a different profile, is lost (the witness).
C33_WholeDocumentWritten ==
  [][\A p \in Processes :
       (writers[p].pc = "read" /\ writers'[p].pc = "done" /\ saves'[Len(saves')] = "saved")
       => /\ \A n \in ProfileNames \ {writers[p].op.name} : store'[n] = writers[p].config[n]
          /\ store'[writers[p].op.name] # NoProfile]_vars

\* Both invocations read the empty document; p1 saved profile 'default', then
\* p2 saved profile 'prod': the final document has 'prod' only.
C33_Witness ==
  /\ saves = <<"saved", "saved">>
  /\ writers["p1"].pc = "done" /\ writers["p2"].pc = "done"
  /\ writers["p1"].op = [kind |-> "saveProfile", name |-> "default"]
  /\ writers["p2"].op = [kind |-> "saveOAuth2Profile", name |-> "prod"]
  /\ writers["p1"].config = writers["p2"].config
  /\ store["prod"] # NoProfile
  /\ store["default"] = NoProfile

\* C34: within one invocation a write to one profile by saveProfile,
\* saveOAuth2Profile or saveOAuth2Tokens leaves the record of every other
\* profile as it was, and saveOAuth2Tokens also leaves the authType,
\* accountId, clientId and encrypted clientSecret of its own profile as they
\* were.
C34_OtherProfilesKept ==
  [][\A name \in ProfileNames :
       /\ (\/ \E answers \in OAuth1Answers : ConfigureOAuth1(name, answers)
           \/ \E answers \in OAuth2Answers, fresh \in Keys, iv \in IVs :
                ConfigureOAuth2(name, answers, fresh, iv)
           \/ \E at \in AccessTokens, rt \in RefreshTokens, expiresIn \in ExpiresIns,
                 fresh \in Keys, iv \in IVs :
                SaveOAuth2Tokens(name, at, Plain(rt), expiresIn, fresh, iv))
          => \A n \in ProfileNames \ {name} : store'[n] = store[n]
       /\ (\E at \in AccessTokens, rt \in RefreshTokens, expiresIn \in ExpiresIns,
              fresh \in Keys, iv \in IVs :
             /\ SaveOAuth2Tokens(name, at, Plain(rt), expiresIn, fresh, iv)
             /\ store' # store)
          => \A f \in {"authType", "accountId", "clientId", "clientSecret"} :
               store'[name][f] = store[name][f]]_vars

\* Two writes, one per profile: a legacy profile and a delegated one are both
\* in the store, the second write having left the first profile in place.
C34_Witness ==
  /\ saves = <<"saved", "saved">>
  /\ \E n \in ProfileNames, m \in ProfileNames :
       /\ n # m
       /\ store[n] # NoProfile /\ store[n].authType = NoParam
       /\ store[m] # NoProfile /\ store[m].authType = "oauth2"

\* C36: when the five environment credentials are complete, a query takes the
\* legacy path even if the named stored profile is a delegated one: what was
\* resolved is the environment's record and nothing of the profile (so no
\* token is there to test for expiry), no refresh request is sent, the
\* invocation never ends for missing tokens or a failed refresh, every remote
\* call is an OAuth 1.0a call, a real query with a valid format does make
\* that call, and no step of the invocation writes the store.
C36_EnvironmentIsLegacy ==
  /\ [](HasResolved /\ AllFiveSet(env) =>
          /\ resolved.credentials = EnvCreds(env)
          /\ resolved.authType = "oauth1"
          /\ refreshRequests = <<>>
          /\ qpc # "refreshing"
          /\ report.kind \notin {"no_tokens", "refresh_failed", "no_credentials"}
          /\ \A i \in 1..Len(apiCalls) : apiCalls[i] = OAuth1Call
          /\ (~qargs.dryRun /\ ValidFormat(qargs.format)) => apiCalls = <<OAuth1Call>>)
  /\ [][AllFiveSet(env') /\ qpc' # "idle" => store' = store /\ keyFile' = keyFile]_vars

\* The environment is complete, the named profile is a delegated one whose
\* stored access token has expired, and the invocation has ended after one
\* OAuth 1.0a call.
C36_Witness ==
  /\ HasResolved /\ AllFiveSet(env) /\ qpc = "done"
  /\ store[qargs.profileName] # NoProfile
  /\ store[qargs.profileName].authType = "oauth2"
  /\ HasTokens(store[qargs.profileName])
  /\ IsTokenExpired(store[qargs.profileName], now)
  /\ apiCalls = <<OAuth1Call>>
  /\ report.kind = "results"

\* What the stored refresh token of a profile decrypts to.
StoredRefreshToken(config, key, name) == Decrypt(config[name].refreshToken, key)

HasNoTokenFields(profile) ==
  /\ profile # NoProfile
  /\ profile.authType = "oauth2"
  /\ profile.accessToken = NoParam
  /\ profile.refreshToken = NoSecret
  /\ profile.tokenExpiry = NoExpiry

\* C37: saveOAuth2Profile replaces the whole record of the profile. Applied to
\* a profile that had tokens, it leaves a profile without accessToken,
\* refreshToken and tokenExpiry, for which isTokenExpired is true, and a query
\* on that profile ends asking for a new login, with no refresh request and no
\* remote call.
C37_ReconfigureDropsTokens ==
  /\ [][\A name \in ProfileNames :
          (/\ \E answers \in OAuth2Answers, fresh \in Keys, iv \in IVs :
                ConfigureOAuth2(name, answers, fresh, iv)
           /\ saves'[Len(saves')] = "saved")
          => /\ HasNoTokenFields(store'[name])
             /\ IsTokenExpired(store'[name], now')
             /\ ~HasTokens(store'[name])]_vars
  /\ [](/\ HasResolved /\ ~qargs.dryRun /\ ValidFormat(qargs.format)
        /\ ~AllFiveSet(env)
        /\ HasNoTokenFields(store[qargs.profileName])
        => /\ qpc = "done"
           /\ report = Exit1("no_tokens")
           /\ refreshRequests = <<>> /\ apiCalls = <<>>)

\* The only profile of the store, which had tokens, was configured again; the
\* query on it ended with "has no tokens, run login first".
C37_Witness ==
  /\ saves # <<>> /\ saves[1] = "saved"
  /\ \A n \in ProfileNames \ {qargs.profileName} : store[n] = NoProfile
  /\ HasNoTokenFields(store[qargs.profileName])
  /\ qpc = "done" /\ report = Exit1("no_tokens")

\* C38 (as claimed): a request to another path neither cancels nor restarts
\* the timer; the timer is armed once, when the server binds; it is cancelled
\* only by a callback-path request; so a bound server that has answered
\* nothing but 404 is closed, and its promise rejected with the timeout
\* error, once the 2 minutes have passed and the timer has run.
C38_TimerOnlyCallbackCancels ==
  /\ [][/\ \A req \in Requests :
             (req.path # CALLBACK_PATH /\ RequestHandled(req))
             => timeoutId' = timeoutId /\ elapsedMs' = elapsedMs
        /\ (timeoutId # "armed" /\ timeoutId' = "armed")
             => pc = "idle" /\ server' = "listening"
        /\ (timeoutId = "armed" /\ timeoutId' \notin {"armed", "fired"})
             => \E req \in Requests : req.path = CALLBACK_PATH /\ RequestHandled(req)]_vars
  /\ []((/\ server \in {"listening", "closed"}
         /\ responses # <<>>
         /\ \A i \in 1..Len(responses) : responses[i] = 404
         /\ elapsedMs >= CALLBACK_TIMEOUT_MS
         /\ timeoutId # "armed")
        => /\ server = "closed"
           /\ callbackPromise = Rejected(TimeoutError))

\* The entries in the opposite order.
RECURSIVE Reversed(_)
Reversed(params) == IF params = <<>> THEN <<>> ELSE Reversed(Tail(params)) \o <<Head(params)>>

\* The value as the claim renders it: unquoted for a number (a numeric string
\* included) and for true/false, otherwise quoted with its quotes doubled.
Rendering(value) ==
  IF value.type = "number" \/ IsNumeric(value.text) THEN value.text
  ELSE IF value.text \in {<<"t", "r", "u", "e">>, <<"f", "a", "l", "s", "e">>} THEN value.text
  ELSE <<"'">> \o DoubleQuotes(value.text) \o <<"'">>

\* The entries whose placeholder stands at position i of the query.
EntriesAt(query, i, params) ==
  {j \in 1..Len(params) : MatchesAt(query, i, Placeholder(params[j].key))}

\* The query with each placeholder replaced, in one pass over the query, by
\* the rendering of its own key's value (where :a and :ab both stand, the
\* placeholder is :ab); what is put in is not looked at again.
RECURSIVE ClaimedFrom(_, _, _)
ClaimedFrom(query, i, params) ==
  IF i > Len(query) THEN <<>>
  ELSE IF EntriesAt(query, i, params) = {} THEN <<query[i]>> \o ClaimedFrom(query, i + 1, params)
  ELSE LET j == CHOOSE j \in EntriesAt(query, i, params) :
                  \A k \in EntriesAt(query, i, params) :
                    Len(params[k].key) <= Len(params[j].key)
       IN  Rendering(params[j].value)
           \o ClaimedFrom(query, i + 1 + Len(params[j].key), params)

\* C39 (as claimed): replacePlaceholders returns the query with every
\* occurrence of each placeholder :key replaced by the rendering of that key's
\* own value, all other text unchanged, and the result is the same whatever
\* the order of the parameters.
C39_EachPlaceholderOwnValue ==
  replaceCheck.done =>
    /\ replaceCheck.result = ClaimedFrom(replaceCheck.query, 1, replaceCheck.params)
    /\ replaceCheck.result
         = ReplacePlaceholders(replaceCheck.query, Reversed(replaceCheck.params))

=============================================================================
